---- MODULE Spec2Model ----
(***************************************************************************)
(* A model of beans-mcp-server: the path-containment guard, the sandboxed  *)
(* file operations and log reader of BeansCliBackend, the hot-swappable    *)
(* MutableBackend with the delete handler running over it, the roots       *)
(* resolver and the start-up workspace selection, the operations of        *)
(* BeansCliBackend that invoke the external tool (with the tool as the     *)
(* backend expects it to behave), the reopen handler, sortBeans, the       *)
(* filter and search queries, and the input schemas of the tools.          *)
(*                                                                         *)
(* A path or URI string is a sequence of tokens: "/" and "." are the       *)
(* characters of that name, " " is a blank, "%20" is the three characters  *)
(* of a percent-encoded blank, and every other token is a run of ordinary  *)
(* name characters.  POSIX path rules are modelled (node:path on posix).   *)
(***************************************************************************)
EXTENDS Integers, Sequences, FiniteSets, TLC

VARIABLES
    pw,         \* isPathWithinRoot: [root, target, result]
    files,      \* the disk: path of each existing file -> its content
    dirs,       \* the disk: paths of the existing directories
    fop,        \* the last file operation: its arguments and outcome
    lg,         \* readOutputLog: its arguments, environment, log file and result
    rt,         \* resolveWorkspaceFromRoots: the client's answer and the result
    su,         \* startBeansMcpServer: its progress, arguments and delegate
    inner,      \* MutableBackend.inner: the backend installed in the delegate
    installs,   \* history: the backends installed so far, the constructor's first
    store,      \* per backend, the status of each record its tool holds
    hp,         \* per tool invocation: the handler's position, locals and calls
    penv,       \* process.env of the server: the value of each variable set
    beans,      \* the records the external tool holds, by id
    be,         \* the backend operation under way: its arguments, execs, result
    bh,         \* history of the backend: the first records, the calls completed
    sq,         \* sortBeans: the list, the mode, the result, the result sorted again
    qy,         \* handleQueryOperation: the fetched records, the options, the result
    rq          \* one tools/call request: the tool, the arguments, the calls, the result

\* ------------------------------------------------------------------ bounds

MaxRootLen == 3
MaxTargetLen == 4
MaxPathLen == 3
MaxLogLen == 4
MaxLinesArg == 3
MaxRoots == 3
MaxArgs == 3
MaxSwaps == 2
MaxCalls == 3
MaxBeans == 3

\* ----------------------------------------------------------- string helpers

\* All token strings over alphabet S of length at most n.
Strings(S, n) == UNION {[1..k -> S] : k \in 0..n}

B2S(b) == IF b THEN "true" ELSE "false"

\* String.prototype.startsWith
StartsWith(s, prefix) ==
    /\ Len(s) >= Len(prefix)
    /\ SubSeq(s, 1, Len(prefix)) = prefix

\* s.split('/'): the pieces between separators, empty pieces included.
RECURSIVE SplitFrom(_, _, _)
SplitFrom(s, i, cur) ==
    IF i > Len(s) THEN <<cur>>
    ELSE IF s[i] = "/" THEN <<cur>> \o SplitFrom(s, i + 1, <<>>)
    ELSE SplitFrom(s, i + 1, Append(cur, s[i]))

Split(s) == SplitFrom(s, 1, <<>>)

\* segments.join('/')
RECURSIVE JoinSegs(_)
JoinSegs(segs) ==
    IF segs = <<>> THEN <<>>
    ELSE IF Len(segs) = 1 THEN segs[1]
    ELSE segs[1] \o <<"/">> \o JoinSegs(Tail(segs))

Dot == <<".">>
DotDot == <<".", ".">>

\* ------------------------------------------------------------- node:path

\* process.cwd() of the server process.
Cwd == <<"/", "w">>

\* path.isAbsolute (posix)
IsAbsolute(p) == p # <<>> /\ p[1] = "/"

\* Normalisation of an absolute path's segments: empty and "." segments are
\* dropped, ".." removes the segment before it and is dropped at the root.
RECURSIVE NormalizeSegs(_, _)
NormalizeSegs(segs, acc) ==
    IF segs = <<>> THEN acc
    ELSE LET s == Head(segs) IN
         IF s = <<>> \/ s = Dot THEN NormalizeSegs(Tail(segs), acc)
         ELSE IF s = DotDot
              THEN NormalizeSegs(Tail(segs),
                                 IF acc = <<>> THEN acc
                                 ELSE SubSeq(acc, 1, Len(acc) - 1))
              ELSE NormalizeSegs(Tail(segs), Append(acc, s))

\* The segments of the resolved absolute path of p.
ResolvedSegs(p) ==
    IF IsAbsolute(p) THEN NormalizeSegs(Split(p), <<>>)
    ELSE NormalizeSegs(Split(Cwd) \o Split(p), <<>>)

\* path.resolve(p): an absolute, normalised path string.
Resolve(p) == <<"/">> \o JoinSegs(ResolvedSegs(p))

\* path.resolve(base, p): p when it is absolute, otherwise p under base;
\* an empty argument is skipped.
Resolve2(base, p) ==
    IF IsAbsolute(p) THEN Resolve(p)
    ELSE IF p = <<>> THEN Resolve(base)
    ELSE IF base = <<>> THEN Resolve(p)
    ELSE Resolve(base \o <<"/">> \o p)

\* path.join(base, p): concatenation with a separator, then normalisation;
\* here base is absolute, so the result is the resolved path.
Join(base, p) == Resolve(base \o <<"/">> \o p)

\* path.dirname of a resolved absolute path.
Dirname(p) ==
    LET segs == ResolvedSegs(p) IN
    IF segs = <<>> THEN <<"/">>
    ELSE <<"/">> \o JoinSegs(SubSeq(segs, 1, Len(segs) - 1))

\* Length of the longest common prefix of two segment lists.
RECURSIVE CommonLen(_, _)
CommonLen(a, b) ==
    IF a = <<>> \/ b = <<>> THEN 0
    ELSE IF Head(a) = Head(b) THEN 1 + CommonLen(Tail(a), Tail(b))
    ELSE 0

\* path.relative(from, to): "" when both resolve to the same path, otherwise
\* one ".." per remaining segment of from, then the remaining segments of to.
Relative(from, to) ==
    LET f == ResolvedSegs(from)
        t == ResolvedSegs(to)
        c == CommonLen(f, t)
        ups == [i \in 1..(Len(f) - c) |-> DotDot]
    IN  JoinSegs(ups \o SubSeq(t, c + 1, Len(t)))

\* ------------------------------------------------------- isPathWithinRoot

\* utils.ts isPathWithinRoot
IsPathWithinRoot(root, target) ==
    LET resolvedRoot == Resolve(root)
        resolvedTarget == Resolve(target)
        rel == Relative(resolvedRoot, resolvedTarget)
    IN  /\ rel # <<>>
        /\ ~StartsWith(rel, DotDot)
        /\ ~IsAbsolute(rel)

\* The resolved target lies strictly below the resolved root: the root's
\* segments are a proper prefix of the target's segments.
ProperDescendant(root, target) ==
    LET r == ResolvedSegs(root)
        t == ResolvedSegs(target)
    IN  /\ Len(t) > Len(r)
        /\ SubSeq(t, 1, Len(r)) = r

PathChars == {"/", ".", "a"}

PathOff == [root |-> <<>>, target |-> <<>>, result |-> "off"]

PathInit ==
    pw \in [root : Strings(PathChars, MaxRootLen),
            target : Strings(PathChars, MaxTargetLen),
            result : {"unset"}]

\* One evaluation of isPathWithinRoot(root, target).
CheckPath ==
    /\ pw.result = "unset"
    /\ pw' = [pw EXCEPT !.result = B2S(IsPathWithinRoot(pw.root, pw.target))]


\* ------------------------------------------------ sandboxed file operations

\* workspaceRoot of the BeansCliBackend serving the file operations.
WorkspaceRoot == <<"/", "w">>

\* BeansCliBackend.getBeansRoot
GetBeansRoot(ws) == Resolve2(ws, <<".", "beans">>)

\* String.prototype.trim: leading and trailing blanks removed.
RECURSIVE TrimLeft(_)
TrimLeft(s) == IF s # <<>> /\ Head(s) = " " THEN TrimLeft(Tail(s)) ELSE s

RECURSIVE TrimRight(_)
TrimRight(s) ==
    IF s # <<>> /\ s[Len(s)] = " " THEN TrimRight(SubSeq(s, 1, Len(s) - 1)) ELSE s

Trim(s) == TrimRight(TrimLeft(s))

\* replace(/^\/+/, ''): leading separators removed.
RECURSIVE StripLeadingSlashes(_)
StripLeadingSlashes(s) ==
    IF s # <<>> /\ Head(s) = "/" THEN StripLeadingSlashes(Tail(s)) ELSE s

\* A path resolution that joins the cleaned path under .beans without the
\* containment check.
ResolveBeanFilePathUnguarded(ws, relativePath) ==
    LET cleaned == StripLeadingSlashes(Trim(relativePath)) IN
    IF cleaned = <<>>
    THEN [ok |-> FALSE, error |-> "Path is required", path |-> <<>>]
    ELSE [ok |-> TRUE, error |-> "", path |-> Resolve2(GetBeansRoot(ws), cleaned)]

\* BeansCliBackend.resolveBeanFilePath: the absolute target, or the error thrown.
ResolveBeanFilePath(ws, relativePath) ==
    LET cleaned == StripLeadingSlashes(Trim(relativePath)) IN
    IF cleaned = <<>>
    THEN [ok |-> FALSE, error |-> "Path is required", path |-> <<>>]
    ELSE LET beansRoot == GetBeansRoot(ws)
             target == Resolve2(beansRoot, cleaned)
         IN  IF ~IsPathWithinRoot(beansRoot, target)
             THEN [ok |-> FALSE, error |-> "Path must stay within .beans directory",
                   path |-> <<>>]
             ELSE [ok |-> TRUE, error |-> "", path |-> target]

\* The directory p and every directory above it, the filesystem root excluded.
AncestorsAndSelf(p) ==
    LET segs == ResolvedSegs(p) IN
    {<<"/">> \o JoinSegs(SubSeq(segs, 1, k)) : k \in 1..Len(segs)}

\* What a path holds on the disk F = [files, dirs].
Holds(p, F) ==
    IF p \in DOMAIN F.files THEN F.files[p]
    ELSE IF p \in F.dirs THEN "dir"
    ELSE "absent"

\* fs.mkdir(d, {recursive: true}): d and its missing ancestors are created; it
\* fails when one of them exists as a file.
FsMkdirRecursive(d, F) ==
    IF \E a \in AncestorsAndSelf(d) : a \in DOMAIN F.files
    THEN [ok |-> FALSE, files |-> F.files, dirs |-> F.dirs]
    ELSE [ok |-> TRUE, files |-> F.files, dirs |-> F.dirs \cup AncestorsAndSelf(d)]

\* fs.writeFile(p, content, {flag}): flag "wx" fails when p exists, flag "w"
\* truncates and rewrites; a write cut short by an I/O fault leaves the file
\* truncated or partly written.
FsWriteFile(p, content, flag, fault, F) ==
    IF \/ p \in F.dirs
       \/ Dirname(p) \notin F.dirs
       \/ (flag = "wx" /\ p \in DOMAIN F.files)
    THEN [ok |-> FALSE, files |-> F.files, dirs |-> F.dirs]
    ELSE LET written == IF fault THEN "partial" ELSE content IN
         [ok |-> ~fault,
          files |-> [q \in DOMAIN F.files \cup {p} |->
                        IF q = p THEN written ELSE F.files[q]],
          dirs |-> F.dirs]

\* fs.readFile(p, 'utf8')
FsReadFile(p, F) ==
    IF p \in DOMAIN F.files
    THEN [ok |-> TRUE, content |-> F.files[p]]
    ELSE [ok |-> FALSE, content |-> "none"]

\* fs.rm(p, {force}): removes a file; a directory is refused (no recursive
\* option); a missing path is an error unless force is set.
FsRm(p, force, F) ==
    IF p \in DOMAIN F.files
    THEN [ok |-> TRUE, files |-> [q \in DOMAIN F.files \ {p} |-> F.files[q]],
          dirs |-> F.dirs]
    ELSE IF p \in F.dirs
    THEN [ok |-> FALSE, files |-> F.files, dirs |-> F.dirs]
    ELSE [ok |-> force, files |-> F.files, dirs |-> F.dirs]

Access(kind, p) == [kind |-> kind, path |-> p]

\* The outcome of one file operation: what it returned, what it touched and
\* the disk it leaves.
Outcome(status, error, target, content, accesses, F) ==
    [status |-> status, error |-> error, target |-> target, content |-> content,
     accesses |-> accesses, files |-> F.files, dirs |-> F.dirs]

\* BeansCliBackend.readBeanFile
ReadBeanFile(ws, relativePath, F) ==
    LET r == ResolveBeanFilePath(ws, relativePath) IN
    IF ~r.ok THEN Outcome("error", r.error, <<>>, "none", {}, F)
    ELSE LET rd == FsReadFile(r.path, F) IN
         Outcome(IF rd.ok THEN "ok" ELSE "error", IF rd.ok THEN "" ELSE "io",
                 r.path, rd.content, {Access("readFile", r.path)}, F)

\* BeansCliBackend.editBeanFile
EditBeanFile(ws, relativePath, content, fault, F) ==
    LET r == ResolveBeanFilePath(ws, relativePath) IN
    IF ~r.ok THEN Outcome("error", r.error, <<>>, "none", {}, F)
    ELSE LET mk == FsMkdirRecursive(Dirname(r.path), F)
             acc1 == {Access("mkdir", Dirname(r.path))}
         IN  IF ~mk.ok THEN Outcome("error", "io", r.path, "none", acc1, mk)
             ELSE LET wr == FsWriteFile(r.path, content, "w", fault, mk) IN
                  Outcome(IF wr.ok THEN "ok" ELSE "error",
                          IF wr.ok THEN "" ELSE "io", r.path, "none",
                          acc1 \cup {Access("writeFile", r.path)}, wr)

\* A createBeanFile that always opens with flag 'w'.
WriteFlagAlwaysOverwrite(overwrite) == "w"

\* createBeanFile's flag: options?.overwrite ? 'w' : 'wx'
WriteFlag(overwrite) == IF overwrite THEN "w" ELSE "wx"

\* BeansCliBackend.createBeanFile
CreateBeanFile(ws, relativePath, content, overwrite, fault, F) ==
    LET r == ResolveBeanFilePath(ws, relativePath) IN
    IF ~r.ok THEN Outcome("error", r.error, <<>>, "none", {}, F)
    ELSE LET mk == FsMkdirRecursive(Dirname(r.path), F)
             acc1 == {Access("mkdir", Dirname(r.path))}
         IN  IF ~mk.ok THEN Outcome("error", "io", r.path, "none", acc1, mk)
             ELSE LET wr == FsWriteFile(r.path, content, WriteFlag(overwrite),
                                        fault, mk)
                  IN  Outcome(IF wr.ok THEN "ok" ELSE "error",
                              IF wr.ok THEN "" ELSE "io", r.path, "none",
                              acc1 \cup {Access("writeFile", r.path)}, wr)

\* An rm that tolerates a missing target.
RmForceTolerant == TRUE

\* deleteBeanFile's rm option: { force: false }
RmForce == FALSE

\* BeansCliBackend.deleteBeanFile
DeleteBeanFile(ws, relativePath, F) ==
    LET r == ResolveBeanFilePath(ws, relativePath) IN
    IF ~r.ok THEN Outcome("error", r.error, <<>>, "none", {}, F)
    ELSE LET d == FsRm(r.path, RmForce, F) IN
         Outcome(IF d.ok THEN "ok" ELSE "error", IF d.ok THEN "" ELSE "io",
                 r.path, "none", {Access("rm", r.path)}, d)

FileChars == {"/", ".", "a", " "}
FileContents == {"c1", "c2"}

Disk == [files |-> files, dirs |-> dirs]

FopOff ==
    [op |-> "off", input |-> <<>>, content |-> "none", overwrite |-> FALSE,
     fault |-> FALSE, status |-> "none", error |-> "", target |-> <<>>,
     returned |-> "none", before |-> [files |-> <<>>, dirs |-> {}],
     accesses |-> {}]

BeansDir == <<"/", "w", "/", ".", "beans">>
FileA == BeansDir \o <<"/", "a">>
FileAA == FileA \o <<"/", "a">>
OutsideA == <<"/", "w", "/", "a">>

\* The disks a file operation may find: the workspace /w is missing, or it
\* holds a file a outside the sandbox and .beans is missing, empty, holds the file a, holds
\* the directory a with a file in it, or is itself a file.
InitialDisks ==
    {[files |-> <<>>, dirs |-> {}],
     [files |-> (OutsideA :> "c0"), dirs |-> {WorkspaceRoot}],
     [files |-> (OutsideA :> "c0"), dirs |-> {WorkspaceRoot, BeansDir}],
     [files |-> (OutsideA :> "c0") @@ (FileA :> "c0"),
      dirs |-> {WorkspaceRoot, BeansDir}],
     [files |-> (OutsideA :> "c0") @@ (FileAA :> "c0"),
      dirs |-> {WorkspaceRoot, BeansDir, FileA}],
     [files |-> (OutsideA :> "c0") @@ (BeansDir :> "c0"), dirs |-> {WorkspaceRoot}]}

FilesInit ==
    /\ \E d \in InitialDisks : files = d.files /\ dirs = d.dirs
    /\ fop = [FopOff EXCEPT !.op = "none"]

\* The state after a file operation with outcome o.
Finish(op, input, content, overwrite, fault, o) ==
    /\ files' = o.files
    /\ dirs' = o.dirs
    /\ fop' = [op |-> op, input |-> input, content |-> content,
               overwrite |-> overwrite, fault |-> fault, status |-> o.status,
               error |-> o.error, target |-> o.target, returned |-> o.content,
               before |-> Disk,
               accesses |-> o.accesses]

ReadFileOp ==
    /\ fop.op = "none"
    /\ \E p \in Strings(FileChars, MaxPathLen) :
          Finish("read", p, "none", FALSE, FALSE, ReadBeanFile(WorkspaceRoot, p, Disk))

EditFileOp ==
    /\ fop.op = "none"
    /\ \E p \in Strings(FileChars, MaxPathLen), c \in FileContents, fault \in BOOLEAN :
          Finish("edit", p, c, FALSE, fault,
                 EditBeanFile(WorkspaceRoot, p, c, fault, Disk))

CreateFileOp ==
    /\ fop.op = "none"
    /\ \E p \in Strings(FileChars, MaxPathLen), c \in FileContents,
          ow \in BOOLEAN, fault \in BOOLEAN :
          Finish("create", p, c, ow, fault,
                 CreateBeanFile(WorkspaceRoot, p, c, ow, fault, Disk))

DeleteFileOp ==
    /\ fop.op = "none"
    /\ \E p \in Strings(FileChars, MaxPathLen) :
          Finish("delete", p, "none", FALSE, FALSE,
                 DeleteBeanFile(WorkspaceRoot, p, Disk))

\* ---------------------------------------------------------- readOutputLog

DefaultMaxLines == 500

\* join(workspaceRoot, '.vscode', 'logs', 'beans-output.log')
DefaultLogPath(ws) ==
    Join(ws, <<".", "vscode", "/", "logs", "/", "beans-output", ".", "log">>)

\* a || b on strings: the empty string (like undefined) is falsy.
OrElse(a, b) == IF a # <<>> THEN a ELSE b

\* A guard that lets every log path through.
LogPathUnchecked(ws, logDir, envLog, envDir) ==
    [path |-> Resolve(OrElse(envLog, DefaultLogPath(ws))), allowed |-> TRUE]

\* The guard of readOutputLog: the resolved log path, and whether it lies
\* within the workspace root or within the log directory.
LogPathCheck(ws, logDir, envLog, envDir) ==
    LET outputPath == Resolve(OrElse(envLog, DefaultLogPath(ws)))
        isWithinWorkspace == IsPathWithinRoot(ws, outputPath)
        hasLogDir == OrElse(envDir, logDir) # <<>>
        vscodeLogDir == Resolve(OrElse(envDir, logDir))
        isWithinVscodeLogDir ==
            IF hasLogDir THEN IsPathWithinRoot(vscodeLogDir, outputPath) ELSE FALSE
    IN  [path |-> outputPath, allowed |-> isWithinWorkspace \/ isWithinVscodeLogDir]

\* options?.lines && options.lines > 0 ? options.lines : 500
\* (0 stands for an absent or zero lines option).
MaxLinesOf(lines) == IF lines # 0 /\ lines > 0 THEN lines ELSE DefaultMaxLines

\* A ring buffer that drops the line just pushed when it is full.
RingPushDropNewest(buf, line, maxLines) ==
    IF Len(buf) + 1 > maxLines THEN buf ELSE Append(buf, line)

\* ringBuffer.push(line); if (ringBuffer.length > maxLines) ringBuffer.shift()
RingPush(buf, line, maxLines) ==
    LET pushed == Append(buf, line) IN
    IF Len(pushed) > maxLines THEN Tail(pushed) ELSE pushed

\* The for-await loop over the lines readline yields: blank lines are skipped.
RECURSIVE RingLoop(_, _, _)
RingLoop(lines, buf, maxLines) ==
    IF lines = <<>> THEN buf
    ELSE IF Head(lines) = "" THEN RingLoop(Tail(lines), buf, maxLines)
    ELSE RingLoop(Tail(lines), RingPush(buf, Head(lines), maxLines), maxLines)

\* BeansCliBackend.readOutputLog on a log file given as the lines readline
\* yields from it (present = FALSE: the file does not exist).
ReadOutputLog(ws, logDir, envLog, envDir, lines, present, file) ==
    LET chk == LogPathCheck(ws, logDir, envLog, envDir) IN
    IF ~chk.allowed
    THEN [status |-> "error",
          error |-> "Output log path must stay within the workspace or VS Code log directory",
          path |-> chk.path, opened |-> FALSE, content |-> <<>>, linesReturned |-> 0]
    ELSE IF ~present
    THEN [status |-> "error", error |-> "io", path |-> chk.path, opened |-> TRUE,
          content |-> <<>>, linesReturned |-> 0]
    ELSE LET ringBuffer == RingLoop(file, <<>>, MaxLinesOf(lines)) IN
         [status |-> "ok", error |-> "", path |-> chk.path, opened |-> TRUE,
          content |-> ringBuffer, linesReturned |-> Len(ringBuffer)]

LogLines == {"", "x", "y"}
LinesArgs == -1..MaxLinesArg
LogEnvPaths ==
    {<<>>, <<"/", "w", "/", "o", ".", "log">>, <<"/", "t", "/", "o", ".", "log">>,
     <<"/", "w", "/", ".", ".", "/", "t", "/", "o", ".", "log">>, <<"/", "w">>}
LogEnvDirs == {<<>>, <<"/", "t">>}
LogDirs == {<<>>, WorkspaceRoot}

LgOff ==
    [phase |-> "off", lines |-> 0, envLog |-> <<>>, envDir |-> <<>>, logDir |-> <<>>,
     present |-> FALSE, file |-> <<>>, out |-> <<>>]

LogInit ==
    /\ lg \in [phase : {"ready"}, lines : LinesArgs, envLog : LogEnvPaths,
               envDir : LogEnvDirs, logDir : LogDirs, present : BOOLEAN,
               file : Strings(LogLines, MaxLogLen), out : {<<>>}]
    /\ ~lg.present => lg.file = <<>>

\* One call of readOutputLog({lines}).
ReadLog ==
    /\ lg.phase = "ready"
    /\ lg' = [lg EXCEPT !.phase = "done",
                        !.out = ReadOutputLog(WorkspaceRoot, lg.logDir, lg.envLog,
                                              lg.envDir, lg.lines, lg.present, lg.file)]

\* ------------------------------------------------ resolveWorkspaceFromRoots

FilePrefix == <<"file:", "/", "/">>

\* The root URIs a client may declare: file URIs of /a, /b and of "/a b"
\* (its blank percent-encoded, as a URI requires), a file URI whose host
\* holds a blank (not a valid URL), and a non-file URI.
RootUris ==
    {FilePrefix \o <<"/", "a">>,
     FilePrefix \o <<"/", "b">>,
     FilePrefix \o <<"/", "a", "%20", "b">>,
     FilePrefix \o <<" ", "/", "a">>,
     <<"https:", "/", "/", "h", "/", "a">>}

\* Index of the first "/" of s at or after i, or Len(s) + 1.
RECURSIVE FirstSlashFrom(_, _)
FirstSlashFrom(s, i) ==
    IF i > Len(s) THEN i
    ELSE IF s[i] = "/" THEN i
    ELSE FirstSlashFrom(s, i + 1)

\* The URL parser's percent-encoding of a path: a blank becomes %20, an
\* existing escape is kept.
PercentEncode(s) == [i \in 1..Len(s) |-> IF s[i] = " " THEN "%20" ELSE s[i]]

\* new URL(uri) for a file:// URI: it throws when the host holds a blank;
\* .pathname is the part after the host, percent-encoded.
UrlOfFileUri(uri) ==
    LET rest == SubSeq(uri, Len(FilePrefix) + 1, Len(uri))
        slash == FirstSlashFrom(rest, 1)
        host == SubSeq(rest, 1, slash - 1)
        path == SubSeq(rest, slash, Len(rest))
    IN  [valid |-> \A i \in 1..Len(host) : host[i] # " ",
         pathname |-> IF path = <<>> THEN <<"/">> ELSE PercentEncode(path)]

NullRoot == [isNull |-> TRUE, path |-> <<>>]
RootPath(p) == [isNull |-> FALSE, path |-> p]

\* The loop over the declared roots; an exception of new URL leaves it.
RECURSIVE FirstFileRoot(_)
FirstFileRoot(roots) ==
    IF roots = <<>> THEN NullRoot
    ELSE IF StartsWith(Head(roots), FilePrefix)
         THEN LET url == UrlOfFileUri(Head(roots)) IN
              IF url.valid THEN RootPath(url.pathname) ELSE NullRoot
         ELSE FirstFileRoot(Tail(roots))

\* resolveWorkspaceFromRoots: null when listRoots rejects (the catch branch).
ResolveWorkspaceFromRoots(rejected, roots) ==
    IF rejected THEN NullRoot ELSE FirstFileRoot(roots)

RtOff == [phase |-> "off", rejected |-> FALSE, roots |-> <<>>, out |-> NullRoot]

RootsInit ==
    /\ rt \in [phase : {"asked"}, rejected : BOOLEAN,
               roots : Strings(RootUris, MaxRoots), out : {NullRoot}]
    /\ rt.rejected => rt.roots = <<>>

\* The roots request is answered (or rejected) and the resolver returns.
ResolveRoots ==
    /\ rt.phase = "asked"
    /\ rt' = [rt EXCEPT !.phase = "done",
                        !.out = ResolveWorkspaceFromRoots(rt.rejected, rt.roots)]

\* ------------------------------------------- parseCliArgs, startBeansMcpServer

DEFAULT_MCP_PORT == 39173

\* The command-line words: options, two paths, a port number and a CLI path
\* holding a shell metacharacter.
ArgWords ==
    {<<"--workspace">>, <<"--workspace-root">>, <<"--cli-path">>, <<"--log-dir">>,
     <<"--port">>, <<"--help">>, <<"/", "x">>, <<"/", "y">>, <<"8080">>, <<"b", ";">>}

StartsWithDash(arg) ==
    arg[1] \in {"--workspace", "--workspace-root", "--cli-path", "--log-dir",
                "--port", "--help"}

\* /[\s;&|><$(){}[\]`]/.test(cliPath)
HasShellChar(arg) == \E i \in 1..Len(arg) : arg[i] \in {";", " "}

\* Number.parseInt(arg, 10): 0 stands for NaN.
ParseInt(arg) == IF arg = <<"8080">> THEN 8080 ELSE 0

\* argv[i + 1] is present and truthy.
HasValue(argv, i) == i + 1 <= Len(argv) /\ argv[i + 1] # <<>>

\* The for loop of parseCliArgs from index i (1-based) on the locals acc.
RECURSIVE ParseLoop(_, _, _)
ParseLoop(argv, i, acc) ==
    IF i > Len(argv) \/ acc.threw THEN acc
    ELSE LET arg == argv[i] IN
         IF arg \in {<<"--workspace">>, <<"--workspace-root">>} /\ HasValue(argv, i)
         THEN ParseLoop(argv, i + 2,
                        [acc EXCEPT !.workspaceRoot = argv[i + 1],
                                    !.workspaceExplicit = TRUE])
         ELSE IF arg = <<"--cli-path">> /\ HasValue(argv, i)
         THEN ParseLoop(argv, i + 2,
                        [acc EXCEPT !.cliPath = argv[i + 1],
                                    !.threw = HasShellChar(argv[i + 1])])
         ELSE IF arg = <<"--port">> /\ HasValue(argv, i)
         THEN ParseLoop(argv, i + 2,
                        IF ParseInt(argv[i + 1]) > 0
                        THEN [acc EXCEPT !.port = ParseInt(argv[i + 1])]
                        ELSE acc)
         ELSE IF arg = <<"--log-dir">> /\ HasValue(argv, i)
         THEN ParseLoop(argv, i + 2, [acc EXCEPT !.logDir = argv[i + 1]])
         ELSE IF ~StartsWithDash(arg) /\ i = 1
         THEN ParseLoop(argv, i + 1,
                        [acc EXCEPT !.workspaceRoot = arg,
                                    !.workspaceExplicit = TRUE])
         ELSE ParseLoop(argv, i + 1, acc)

\* parseCliArgs: exited when --help is given, threw on an invalid CLI path;
\* logDir defaults to the workspace root.
ParseCliArgs(argv) ==
    LET help == \E i \in 1..Len(argv) : argv[i] = <<"--help">>
        acc == ParseLoop(argv, 1,
                         [workspaceRoot |-> Cwd, workspaceExplicit |-> FALSE,
                          cliPath |-> <<"beans">>, port |-> DEFAULT_MCP_PORT,
                          logDir |-> <<>>, threw |-> FALSE, exited |-> FALSE])
    IN  IF help
        THEN [workspaceRoot |-> Cwd, workspaceExplicit |-> FALSE,
              cliPath |-> <<"beans">>, port |-> DEFAULT_MCP_PORT,
              logDir |-> <<>>, threw |-> FALSE, exited |-> TRUE]
        ELSE IF acc.logDir = <<>> THEN [acc EXCEPT !.logDir = acc.workspaceRoot]
        ELSE acc

\* new BeansCliBackend(workspaceRoot, cliPath, logDir); an empty logDir
\* stands for an omitted one.
BeansCliBackend(workspaceRoot, cliPath, logDir) ==
    [workspaceRoot |-> workspaceRoot, cliPath |-> cliPath, logDir |-> logDir]

\* A start-up that consults the resolver whatever the command line gave.
ConsultsResolverAlways(parsed) == TRUE

\* if (!workspaceExplicit)
ConsultsResolver(parsed) == ~parsed.workspaceExplicit

\* The roots a resolver may return: null or a path (never the empty string:
\* URL.pathname starts with "/").
ResolverResults == {NullRoot, RootPath(<<"/", "r">>)}

NoBackend == BeansCliBackend(<<>>, <<>>, <<>>)

SuOff ==
    [pc |-> "off", argv |-> <<>>, parsed |-> ParseCliArgs(<<>>), inner |-> NoBackend,
     envPort |-> 0, resolverCalls |-> 0, resolved |-> NullRoot, swaps |-> 0,
     served |-> <<>>]

StartInit ==
    su \in [pc : {"start"}, argv : Strings(ArgWords, MaxArgs),
            parsed : {ParseCliArgs(<<>>)}, inner : {NoBackend}, envPort : {0},
            resolverCalls : {0}, resolved : {NullRoot}, swaps : {0}, served : {<<>>}]

\* startBeansMcpServer up to server.connect: the arguments are parsed, the
\* port is exported to process.env (envPort, 0 when unset), the delegate is
\* built over a backend on the parsed root and the tools are registered on
\* it.
StartParse ==
    /\ su.pc = "start"
    /\ LET parsed == ParseCliArgs(su.argv) IN
       su' = [su EXCEPT
                !.parsed = parsed,
                !.envPort = IF parsed.exited \/ parsed.threw THEN 0 ELSE parsed.port,
                !.pc = IF parsed.exited THEN "exited"
                       ELSE IF parsed.threw THEN "failed"
                       ELSE "connecting",
                !.inner = IF parsed.exited \/ parsed.threw THEN NoBackend
                          ELSE BeansCliBackend(parsed.workspaceRoot, parsed.cliPath,
                                               parsed.logDir)]

\* server.connect(transport) resolves; without an explicit workspace the
\* resolver is called.
StartConnected ==
    /\ su.pc = "connecting"
    /\ su' = IF ConsultsResolver(su.parsed)
             THEN [su EXCEPT !.pc = "resolving",
                             !.resolverCalls = su.resolverCalls + 1]
             ELSE [su EXCEPT !.pc = "done"]

\* The resolver returns rootPath; a truthy one is installed with setInner.
StartResolved ==
    /\ su.pc = "resolving"
    /\ \E r \in ResolverResults :
          su' = IF ~r.isNull /\ r.path # <<>>
                THEN [su EXCEPT !.pc = "done", !.resolved = r,
                                !.inner = BeansCliBackend(r.path, su.parsed.cliPath, <<>>),
                                !.swaps = su.swaps + 1]
                ELSE [su EXCEPT !.pc = "done", !.resolved = r]

\* A tools/call request arrives once the transport is connected (the
\* resolver may still be waiting for the client's roots): the handler calls
\* the delegate, which forwards to the backend it holds at that moment.
StartToolCall ==
    /\ su.pc \in {"resolving", "done"}
    /\ Len(su.served) < MaxCalls
    /\ su' = [su EXCEPT !.served = Append(@, su.inner)]

\* ------------------------------------- MutableBackend and the tool handlers

\* The backend instances a delegate may hold, each on a workspace of its own.
Backends == {"b1", "b2"}

\* Concurrent tool invocations.
Procs == {"p1", "p2"}

BeanIds == {"r1", "r2"}
Statuses == {"draft", "todo", "completed", "scrapped"}

\* The methods of BackendInterface.
Methods ==
    {"init", "list", "create", "update", "delete", "openConfig", "graphqlSchema",
     "readOutputLog", "readBeanFile", "editBeanFile", "createBeanFile",
     "deleteBeanFile"}

\* A setInner whose assignment is lost.
SetInnerLost(current, b) == current

\* MutableBackend.setInner: this.inner = b
SetInnerAssign(current, b) == b

\* MutableBackend.<method>: return this.inner.<method>(...), the same for
\* every method: the backend the call is made on is the inner of the moment.
Forward(method) == inner

\* A completion that is served by whatever backend the delegate holds then.
ServingBackendOfTheMoment(p) == inner

\* The backend that serves an in-flight call of p to its end: the promise
\* returned by the inner backend the call was made on.
ServingBackend(p) == hp[p].bound

\* A deletion rule that ignores the status.
DeletableAnyStatus(status, force) == TRUE

\* deleteHandler's rule: !(!force && status !== 'draft' && status !== 'scrapped')
Deletable(status, force) == force \/ status = "draft" \/ status = "scrapped"

IdleProc ==
    [pc |-> "idle", kind |-> "none", method |-> "none", beanId |-> "none",
     arg |-> "none", force |-> FALSE, required |-> "none", bound |-> "none",
     epoch |-> 0,
     found |-> "none", result |-> "none", error |-> "", log |-> <<>>]

Served(p, by) ==
    [method |-> hp[p].method, epoch |-> hp[p].epoch, bound |-> hp[p].bound,
     by |-> by, doneEpoch |-> Len(installs)]

\* b1 is the backend the delegate is constructed on.
MainInit ==
    /\ inner = "b1"
    /\ installs = <<"b1">>
    /\ store = [b \in Backends |->
                  IF b = "b1" THEN [r1 |-> "todo", r2 |-> "draft"]
                  ELSE [r1 |-> "scrapped", r2 |-> "absent"]]
    /\ hp = [p \in Procs |-> IdleProc]

\* mutable.setInner(b)
SetInner(b) ==
    /\ Len(installs) <= MaxSwaps
    /\ inner' = SetInnerAssign(inner, b)
    /\ installs' = Append(installs, b)
    /\ UNCHANGED <<store, hp>>

\* A call of method through the delegate starts for p.
CallVia(p, method) ==
    [hp[p] EXCEPT !.method = method, !.bound = Forward(method),
                  !.epoch = Len(installs)]

\* deleteHandler({beanId, force}) starts: getBeanById calls backend.list().
BeginDelete(p, id, force) ==
    /\ hp[p].pc = "idle"
    /\ hp' = [hp EXCEPT ![p] = [CallVia(p, "list") EXCEPT
                !.pc = "listing", !.kind = "delete", !.beanId = id, !.force = force]]
    /\ UNCHANGED <<inner, installs, store>>

\* backend.list() settles. On failure getBeanById rethrows. Otherwise the
\* record is looked up in the snapshot, the deletion rule is applied and
\* backend.delete(beanId) is called through the delegate.
ListSettles(p, failed) ==
    /\ hp[p].pc = "listing"
    /\ LET by == ServingBackend(p)
           entry == Served(p, by)
           bean == IF failed THEN "none" ELSE store[by][hp[p].beanId]
           q == [hp[p] EXCEPT !.log = Append(@, entry), !.found = bean]
       IN  hp' = [hp EXCEPT ![p] =
                IF failed \/ bean = "absent"
                THEN [q EXCEPT !.pc = "done", !.result = "error",
                               !.error = "Failed to fetch bean"]
                ELSE IF ~Deletable(bean, hp[p].force)
                THEN [q EXCEPT !.pc = "done", !.result = "error",
                               !.error = "Only draft and scrapped beans are deletable unless force=true"]
                ELSE [q EXCEPT !.pc = "deleting", !.method = "delete",
                               !.bound = Forward("delete"), !.epoch = Len(installs)]]
    /\ UNCHANGED <<inner, installs, store>>

\* backend.delete(beanId) settles: the tool removes the record, or fails
\* (also when the record is gone by then) and nothing changes.
DeleteSettles(p, failed) ==
    /\ hp[p].pc = "deleting"
    /\ LET by == ServingBackend(p)
           id == hp[p].beanId
           fails == failed \/ store[by][id] = "absent"
       IN  /\ store' = IF fails THEN store
                       ELSE [store EXCEPT ![by][id] = "absent"]
           /\ hp' = [hp EXCEPT ![p] = [@ EXCEPT
                       !.pc = "done", !.log = Append(@, Served(p, by)),
                       !.result = IF fails THEN "error" ELSE "ok",
                       !.error = IF fails THEN "tool" ELSE ""]]
    /\ UNCHANGED <<inner, installs>>

\* A reopen that does not look at the record's status.
ReopenAnyStatus(status, requiredCurrentStatus) == TRUE

\* reopenHandler: bean.status !== requiredCurrentStatus throws.
ReopenAllowed(status, requiredCurrentStatus) == status = requiredCurrentStatus

\* reopenHandler({beanId, requiredCurrentStatus, targetStatus}) starts:
\* getBeanById calls backend.list().
BeginReopen(p, id, requiredCurrentStatus, targetStatus) ==
    /\ hp[p].pc = "idle"
    /\ hp' = [hp EXCEPT ![p] = [CallVia(p, "list") EXCEPT
                !.pc = "reopen-listing", !.kind = "reopen", !.beanId = id,
                !.required = requiredCurrentStatus, !.arg = targetStatus]]
    /\ UNCHANGED <<inner, installs, store>>

\* backend.list() settles for a reopen. On failure, or when the id is not in
\* the snapshot, getBeanById throws; a status other than the required one
\* throws; otherwise backend.update(beanId, {status: targetStatus}) is called
\* through the delegate.
ReopenListSettles(p, failed) ==
    /\ hp[p].pc = "reopen-listing"
    /\ LET by == ServingBackend(p)
           entry == Served(p, by)
           bean == IF failed THEN "none" ELSE store[by][hp[p].beanId]
           q == [hp[p] EXCEPT !.log = Append(@, entry), !.found = bean]
       IN  hp' = [hp EXCEPT ![p] =
                IF failed \/ bean = "absent"
                THEN [q EXCEPT !.pc = "done", !.result = "error",
                               !.error = "Failed to fetch bean"]
                ELSE IF ~ReopenAllowed(bean, hp[p].required)
                THEN [q EXCEPT !.pc = "done", !.result = "error",
                               !.error = "Bean is not in the required status"]
                ELSE [q EXCEPT !.pc = "calling", !.method = "update",
                               !.bound = Forward("update"), !.epoch = Len(installs)]]
    /\ UNCHANGED <<inner, installs, store>>

\* A handler that makes one backend call starts it through the delegate
\* (update carries the record and the new status).
BeginCall(p, method, id, status) ==
    /\ hp[p].pc = "idle"
    /\ method # "update" => id = "none" /\ status = "none"
    /\ method = "update" => id \in BeanIds /\ status \in Statuses
    /\ hp' = [hp EXCEPT ![p] = [CallVia(p, method) EXCEPT
                !.pc = "calling", !.kind = "call", !.beanId = id, !.arg = status]]
    /\ UNCHANGED <<inner, installs, store>>

\* The call settles on its backend; an update that succeeds sets the status.
CallSettles(p, failed) ==
    /\ hp[p].pc = "calling"
    /\ LET by == ServingBackend(p)
           id == hp[p].beanId
           fails == failed \/ (hp[p].method = "update" /\ store[by][id] = "absent")
       IN  /\ store' = IF ~fails /\ hp[p].method = "update"
                       THEN [store EXCEPT ![by][id] = hp[p].arg]
                       ELSE store
           /\ hp' = [hp EXCEPT ![p] = [@ EXCEPT
                       !.pc = "done", !.log = Append(@, Served(p, by)),
                       !.result = IF fails THEN "error" ELSE "ok",
                       !.error = IF fails THEN "tool" ELSE ""]]
    /\ UNCHANGED <<inner, installs>>

\* ------------------------------------- BeansCliBackend and the external tool

\* JavaScript values of the option objects, tagged by type.
Undefined == [t |-> "undefined", v |-> "undefined"]
JsString(s) == [t |-> "string", v |-> s]
JsBoolean(b) == [t |-> "boolean", v |-> b]
JsArray(a) == [t |-> "array", v |-> a]
JsObject(o) == [t |-> "object", v |-> o]

\* The truthiness of a value: undefined, false and '' are falsy, an array
\* (even an empty one) is truthy.
Truthy(x) ==
    CASE x.t = "undefined" -> FALSE
      [] x.t = "boolean" -> x.v
      [] x.t = "string" -> x.v # ""
      [] OTHER -> TRUE

\* An object without the properties whose value is undefined.
DropUndefined(obj) == [k \in {f \in DOMAIN obj : obj[f] # Undefined} |-> obj[k]]

\* JSON.stringify of an object: properties whose value is undefined are left
\* out, in the object and in the objects it holds; the text is kept as the
\* map of the remaining properties.
JsonStringify(obj) ==
    LET top == DropUndefined(obj) IN
    [k \in DOMAIN top |->
        IF top[k].t = "object" THEN JsObject(DropUndefined(top[k].v)) ELSE top[k]]

\* Two objects merged, the properties of the second on top of the first.
Assign(o1, o2) ==
    [k \in DOMAIN o1 \cup DOMAIN o2 |-> IF k \in DOMAIN o2 THEN o2[k] ELSE o1[k]]

NoProps == [k \in {} |-> Undefined]
Prop(k, x) == [f \in {k} |-> x]

\* Names of environment variables, as token sequences.
EnvNames ==
    {<<"PATH">>, <<"LANG">>, <<"BEANS_", "X">>, <<"MY_", "BEANS_", "X">>, <<"SECRET">>}
EnvValues == {"", "v"}

\* process.env: a value for each variable that is set.
ParentEnvs == UNION {[S -> EnvValues] : S \in SUBSET EnvNames}

whitelist ==
    <<<<"PATH">>, <<"HOME">>, <<"USER">>, <<"LANG">>, <<"LC_ALL">>, <<"LC_CTYPE">>,
      <<"SHELL">>>>

\* An environment handed down whole.
InheritEnv(env) == env

\* BeansCliBackend.getSafeEnv
GetSafeEnv(env) ==
    LET listed == {whitelist[i] : i \in 1..Len(whitelist)}
        fromList == {k \in listed : k \in DOMAIN env /\ env[k] # ""}
        fromPrefix == {k \in DOMAIN env : StartsWith(k, <<"BEANS_">>)}
    IN  [k \in fromList \cup fromPrefix |-> env[k]]

\* One execFile of the tool: a structured query with its variables, or the
\* init or schema sub-command.
ExecFile(cmd, query, variables, env) ==
    [cmd |-> cmd, query |-> query, variables |-> variables,
     env |-> GetSafeEnv(env), maxBuffer |-> 10 * 1024 * 1024, timeout |-> 30000]

\* executeGraphQL(query, variables): args 'graphql', '--json', query,
\* '--variables', JSON.stringify(variables)
ExecuteGraphQL(query, variables, env) ==
    ExecFile("graphql --json", query, JsonStringify(variables), env)

\* A filter that sends every field it was given.
ListFilterVerbatim(options) == options

\* list: the filter keeps status and type only when they are non-empty lists
\* and search only when it is a non-empty string.
ListFilter(options) ==
    Assign(Assign(
        IF Truthy(options["status"]) /\ Len(options["status"].v) > 0
        THEN Prop("status", options["status"]) ELSE NoProps,
        IF Truthy(options["type"]) /\ Len(options["type"].v) > 0
        THEN Prop("type", options["type"]) ELSE NoProps),
        IF Truthy(options["search"])
        THEN Prop("search", options["search"]) ELSE NoProps)

ListVariables(options) == Prop("filter", JsObject(ListFilter(options)))

\* An update in which clearParent wins over parent.
UpdateParentClearWins(updates) ==
    IF Truthy(updates["clearParent"]) THEN Prop("parent", JsString(""))
    ELSE IF updates["parent"] # Undefined THEN Prop("parent", updates["parent"])
    ELSE NoProps

\* update: parent when it is supplied, else '' when clearParent is truthy.
UpdateParent(updates) ==
    IF updates["parent"] # Undefined THEN Prop("parent", updates["parent"])
    ELSE IF Truthy(updates["clearParent"]) THEN Prop("parent", JsString(""))
    ELSE NoProps

\* An update that sends its relationship lists as replacements.
UpdateRelationsReplace(updates) ==
    Assign(
        IF Truthy(updates["blocking"])
        THEN Prop("blocking", updates["blocking"]) ELSE NoProps,
        IF Truthy(updates["blockedBy"])
        THEN Prop("blockedBy", updates["blockedBy"]) ELSE NoProps)

\* update: blocking and blockedBy travel as addBlocking and addBlockedBy.
UpdateRelations(updates) ==
    Assign(
        IF Truthy(updates["blocking"])
        THEN Prop("addBlocking", updates["blocking"]) ELSE NoProps,
        IF Truthy(updates["blockedBy"])
        THEN Prop("addBlockedBy", updates["blockedBy"]) ELSE NoProps)

\* update: the mutation input built from the updates.
UpdateInput(updates) ==
    Assign(Assign(
        [k \in {"status", "type", "priority"} |-> updates[k]],
        UpdateParent(updates)),
        UpdateRelations(updates))

UpdateVariables(beanId, updates) ==
    Assign(Prop("id", JsString(beanId)),
           Prop("input", JsObject(UpdateInput(updates))))

\* ---- the external tool, as the backend expects it to behave

\* The elements of a list.
Elems(a) == {a[i] : i \in 1..Len(a)}

\* beans(filter: $filter): a record passes every constraint the filter holds.
ToolMatches(rec, filter) ==
    /\ "status" \in DOMAIN filter => rec.status \in Elems(filter["status"].v)
    /\ "type" \in DOMAIN filter => rec.type \in Elems(filter["type"].v)
    /\ "search" \in DOMAIN filter => filter["search"].v \in Elems(rec.title)

ToolList(recs, filter) ==
    [id \in {i \in DOMAIN recs : ToolMatches(recs[i], filter)} |-> recs[id]]

\* updateBean(id, input): scalar fields are set, parent '' clears the
\* parent, addBlocking / addBlockedBy are united with what the record has and
\* blocking / blockedBy replace it.
ToolUpdate(rec, input) ==
    [status |-> IF "status" \in DOMAIN input THEN input["status"].v ELSE rec.status,
     type |-> IF "type" \in DOMAIN input THEN input["type"].v ELSE rec.type,
     title |-> rec.title,
     parentId |-> IF "parent" \in DOMAIN input THEN input["parent"].v ELSE rec.parentId,
     blockingIds |->
        IF "blocking" \in DOMAIN input THEN Elems(input["blocking"].v)
        ELSE IF "addBlocking" \in DOMAIN input
        THEN rec.blockingIds \cup Elems(input["addBlocking"].v)
        ELSE rec.blockingIds,
     blockedByIds |->
        IF "blockedBy" \in DOMAIN input THEN Elems(input["blockedBy"].v)
        ELSE IF "addBlockedBy" \in DOMAIN input
        THEN rec.blockedByIds \cup Elems(input["addBlockedBy"].v)
        ELSE rec.blockedByIds]

NewBeanId == "r9"

\* createBean(input)
ToolCreate(input) ==
    [status |-> IF "status" \in DOMAIN input THEN input["status"].v ELSE "todo",
     type |-> input["type"].v,
     title |-> <<input["title"].v>>,
     parentId |-> IF "parent" \in DOMAIN input THEN input["parent"].v ELSE "",
     blockingIds |-> {},
     blockedByIds |-> {}]

\* Whether the tool can carry out the invocation on the records it holds.
ToolAccepts(recs, exec) ==
    CASE exec.query \in {"UPDATE_BEAN_MUTATION", "DELETE_BEAN_MUTATION"} ->
            exec.variables["id"].v \in DOMAIN recs
      [] exec.query = "CREATE_BEAN_MUTATION" -> NewBeanId \notin DOMAIN recs
      [] OTHER -> TRUE

\* The records the tool holds once it has carried the invocation out.
ToolApply(recs, exec) ==
    CASE exec.query = "UPDATE_BEAN_MUTATION" ->
            [recs EXCEPT ![exec.variables["id"].v] =
                ToolUpdate(@, exec.variables["input"].v)]
      [] exec.query = "DELETE_BEAN_MUTATION" ->
            [id \in DOMAIN recs \ {exec.variables["id"].v} |-> recs[id]]
      [] exec.query = "CREATE_BEAN_MUTATION" ->
            [id \in DOMAIN recs \cup {NewBeanId} |->
                IF id = NewBeanId THEN ToolCreate(exec.variables["input"].v)
                ELSE recs[id]]
      [] OTHER -> recs

\* What the tool prints on success: the data of the reply, without envelope.
ToolData(recs, after, exec) ==
    CASE exec.query = "LIST_BEANS_QUERY" ->
            [kind |-> "beans", beans |-> ToolList(recs, exec.variables["filter"].v)]
      [] exec.query = "UPDATE_BEAN_MUTATION" ->
            [kind |-> "bean",
             beans |-> [id \in {exec.variables["id"].v} |-> after[id]]]
      [] exec.query = "CREATE_BEAN_MUTATION" ->
            [kind |-> "bean", beans |-> [id \in {NewBeanId} |-> after[id]]]
      [] exec.query = "DELETE_BEAN_MUTATION" ->
            [kind |-> "deleted", beans |-> <<>>]
      [] exec.cmd = "init" -> [kind |-> "initialized", beans |-> <<>>]
      [] OTHER -> [kind |-> "schema", beans |-> <<>>]

\* How an invocation can end: exit 0 with a well-formed reply, a non-zero
\* exit, the timeout, more output than maxBuffer, exit 0 with output that is
\* not JSON.
Outcomes == {"ok", "exit", "timeout", "overflow", "garbage"}

\* ---- the backend operations

\* The operations that go through executeGraphQL.
GraphQLOps == {"list", "create", "update", "delete"}
CliOps == GraphQLOps \cup {"init", "graphqlSchema"}

\* A backend that answers a failed invocation with an empty success.
FailureAsEmptySuccess(op, outcome) == FALSE

\* Whether the operation rejects: execFile rejects on a non-zero exit, on
\* the timeout and on output beyond maxBuffer, and executeGraphQL throws when
\* JSON.parse fails; init and graphqlSchema do not parse the output.
Rejects(op, outcome) ==
    \/ outcome \in {"exit", "timeout", "overflow"}
    \/ outcome = "garbage" /\ op \in GraphQLOps

\* The invocation an operation starts with.
FirstExec(op, id, o, env) ==
    CASE op = "init" ->
            ExecFile("init", "",
                     IF Truthy(o["prefix"]) THEN Prop("--prefix", o["prefix"])
                     ELSE NoProps, env)
      [] op = "list" -> ExecuteGraphQL("LIST_BEANS_QUERY", ListVariables(o), env)
      [] op = "create" ->
            ExecuteGraphQL("CREATE_BEAN_MUTATION",
                Prop("input", JsObject(
                    [k \in {"title", "type", "status", "priority", "body", "parent"} |->
                        IF k = "body" THEN o["description"] ELSE o[k]])), env)
      [] op = "update" ->
            ExecuteGraphQL("UPDATE_BEAN_MUTATION", UpdateVariables(id, o), env)
      [] op = "delete" ->
            ExecuteGraphQL("DELETE_BEAN_MUTATION", Prop("id", JsString(id)), env)
      [] OTHER -> ExecFile("graphql --schema", "", NoProps, env)

NoResult == [status |-> "none", kind |-> "none", beans |-> <<>>]
BeIdle == [pc |-> "idle", op |-> "none", id |-> "", o |-> NoProps, execs |-> <<>>,
           outcome |-> "none", result |-> NoResult]

ErrorResult == [status |-> "error", kind |-> "error", beans |-> <<>>]

\* The result of an operation whose invocation ended with the given outcome.
ResultOf(op, outcome, data) ==
    IF Rejects(op, outcome) THEN ErrorResult
    ELSE IF outcome = "ok" THEN [status |-> "ok", kind |-> data.kind, beans |-> data.beans]
    ELSE [status |-> "ok",
          kind |-> IF op = "init" THEN "initialized"
                   ELSE IF op = "graphqlSchema" THEN "schema" ELSE "empty",
          beans |-> <<>>]

\* A call of a backend operation: the tool is invoked once, with the safe
\* environment, and the call waits for it.
CliBegin(op, id, o) ==
    /\ be.pc \in {"idle", "done"}
    /\ Len(bh.calls) < bh.budget
    /\ be' = [pc |-> "running", op |-> op, id |-> id, o |-> o,
              execs |-> <<FirstExec(op, id, o, penv)>>,
              outcome |-> "none", result |-> NoResult]
    /\ UNCHANGED <<penv, beans, bh>>

\* The invocation ends and the operation resolves or rejects.  A tool that
\* is killed by the timeout or by the output limit, or that prints something
\* that is not JSON, may or may not have carried the request out.
CliSettle(outcome, applied) ==
    /\ be.pc = "running"
    /\ LET exec == be.execs[Len(be.execs)]
           accepted == ToolAccepts(beans, exec)
           after == IF applied THEN ToolApply(beans, exec) ELSE beans
           result == ResultOf(be.op, outcome, ToolData(beans, after, exec))
       IN  /\ outcome = "ok" => accepted /\ applied
           /\ outcome = "exit" => ~applied
           /\ applied => accepted
           /\ beans' = after
           /\ be' = [be EXCEPT !.pc = "done", !.outcome = outcome, !.result = result]
           /\ bh' = [bh EXCEPT !.calls = Append(@,
                        [op |-> be.op, id |-> be.id, o |-> be.o, outcome |-> outcome,
                         status |-> result.status, applied |-> applied])]
    /\ UNCHANGED penv

Bean(status, type, title) ==
    [status |-> status, type |-> type, title |-> title, parentId |-> "",
     blockingIds |-> {}, blockedByIds |-> {}]

NoBeans == [id \in {} |-> Bean("", "", <<>>)]

ThreeBeans ==
    [id \in {"r1", "r2", "r3"} |->
        CASE id = "r1" -> Bean("todo", "bug", <<"fix", "login">>)
          [] id = "r2" -> Bean("draft", "feature", <<"add", "login">>)
          [] OTHER -> Bean("todo", "feature", <<"docs">>)]

OneEnv == [k \in {<<"PATH">>, <<"SECRET">>} |-> "v"]

CliOff == penv = <<>> /\ beans = <<>> /\ be = BeIdle
            /\ bh = [budget |-> 0, initial |-> <<>>, calls |-> <<>>]

CliInit(envs, stores, budget) ==
    /\ penv \in envs
    /\ beans \in stores
    /\ be = BeIdle
    /\ bh = [budget |-> budget, initial |-> beans, calls |-> <<>>]

varsCli == <<penv, beans, be, bh>>

\* The options of a list call: status and type are lists or absent, search
\* is a string or absent.
ListOptions ==
    {o \in [{"status", "type", "search"} ->
                {Undefined, JsArray(<<>>), JsArray(<<"todo">>),
                 JsArray(<<"todo", "draft">>), JsArray(<<"bug">>), JsString(""),
                 JsString("login")}] :
        /\ o["status"] \in {Undefined, JsArray(<<>>), JsArray(<<"todo">>),
                            JsArray(<<"todo", "draft">>)}
        /\ o["type"] \in {Undefined, JsArray(<<>>), JsArray(<<"bug">>)}
        /\ o["search"] \in {Undefined, JsString(""), JsString("login")}}

UpdateFields ==
    {"status", "type", "priority", "parent", "clearParent", "blocking", "blockedBy",
     "body"}

\* The updates objects whose fields are drawn from the given sets (type,
\* priority and body are left out).
Updates(statuses, parents, clears, blockings, blockedBys) ==
    {[k \in UpdateFields |->
        CASE k = "status" -> st
          [] k = "parent" -> pa
          [] k = "clearParent" -> cl
          [] k = "blocking" -> bl
          [] k = "blockedBy" -> bb
          [] OTHER -> Undefined] :
      st \in statuses, pa \in parents, cl \in clears, bl \in blockings,
      bb \in blockedBys}

\* A record with relationships.
Related(rec, parent, blocking, blockedBy) ==
    [rec EXCEPT !.parentId = parent, !.blockingIds = blocking, !.blockedByIds = blockedBy]

\* Stores of one record r1: with no relationships, or with parent r3,
\* blocking r2 and blocked by r3.
RelatedStores ==
    {[id \in {"r1"} |-> Bean("todo", "bug", <<"fix">>)],
     [id \in {"r1"} |-> Related(Bean("todo", "bug", <<"fix">>), "r3", {"r2"}, {"r3"})]}

\* One call of each backend operation that invokes the tool.
CliCalls ==
    {[op |-> "init", id |-> "", o |-> Prop("prefix", Undefined)],
     [op |-> "init", id |-> "", o |-> Prop("prefix", JsString("b"))],
     [op |-> "list", id |-> "",
      o |-> [k \in {"status", "type", "search"} |-> Undefined]],
     [op |-> "create", id |-> "",
      o |-> [k \in {"title", "type", "status", "priority", "description", "parent"} |->
                CASE k = "title" -> JsString("t")
                  [] k = "type" -> JsString("bug")
                  [] OTHER -> Undefined]],
     [op |-> "update", id |-> "r1",
      o |-> [k \in UpdateFields |->
                IF k = "status" THEN JsString("completed") ELSE Undefined]],
     [op |-> "delete", id |-> "r1", o |-> NoProps],
     [op |-> "delete", id |-> "r7", o |-> NoProps],
     [op |-> "graphqlSchema", id |-> "", o |-> NoProps]}

\* ------------------------------------------------------------- sortBeans

SortModes == {"status-priority-type-title", "updated", "created", "id"}

\* The weight given to a value no table knows.
SentinelWeight == 99

\* A status table in which unknown statuses weigh like the first status.
StatusWeightNoSentinel(status) ==
    CASE status = "in-progress" -> 0
      [] status = "todo" -> 1
      [] status = "draft" -> 2
      [] status = "completed" -> 3
      [] status = "scrapped" -> 4
      [] OTHER -> 0

\* Active statuses first, terminal statuses last, unknown ones after all.
StatusWeight(status) ==
    CASE status = "in-progress" -> 0
      [] status = "todo" -> 1
      [] status = "draft" -> 2
      [] status = "completed" -> 3
      [] status = "scrapped" -> 4
      [] OTHER -> SentinelWeight

\* critical > high > normal (the default of a record without priority) > low.
PriorityWeight(priority) ==
    CASE priority = "critical" -> 0
      [] priority = "high" -> 1
      [] priority \in {"normal", "undefined"} -> 2
      [] priority = "low" -> 3
      [] OTHER -> SentinelWeight

TypeWeight(type) ==
    CASE type = "milestone" -> 0
      [] type = "epic" -> 1
      [] type = "feature" -> 2
      [] type = "bug" -> 3
      [] type = "task" -> 4
      [] OTHER -> SentinelWeight

CompareInt(a, b) == IF a < b THEN -1 ELSE IF a > b THEN 1 ELSE 0

\* Case-sensitive lexicographic comparison of two strings given as their
\* character codes.
RECURSIVE CompareText(_, _)
CompareText(s, t) ==
    IF s = <<>> /\ t = <<>> THEN 0
    ELSE IF s = <<>> THEN -1
    ELSE IF t = <<>> THEN 1
    ELSE IF Head(s) # Head(t) THEN CompareInt(Head(s), Head(t))
    ELSE CompareText(Tail(s), Tail(t))

\* Ascending by timestamp.
CompareStampAscending(a, b) ==
    IF a = 0 /\ b = 0 THEN 0
    ELSE IF a = 0 THEN 1
    ELSE IF b = 0 THEN -1
    ELSE IF a < b THEN -1 ELSE IF a > b THEN 1 ELSE 0

\* Descending by timestamp; a record without one (0) goes after the others.
CompareStamp(a, b) ==
    IF a = 0 /\ b = 0 THEN 0
    ELSE IF a = 0 THEN 1
    ELSE IF b = 0 THEN -1
    ELSE CompareInt(b, a)

\* The first comparison of the chain that tells the two records apart.
FirstNonZero(chain) ==
    IF \E i \in 1..Len(chain) : chain[i] # 0
    THEN chain[CHOOSE i \in 1..Len(chain) :
                  chain[i] # 0 /\ \A j \in 1..(i - 1) : chain[j] = 0]
    ELSE 0

\* The order of a sort mode: negative when a goes before b, 0 on a tie.
CompareBeans(a, b, mode) ==
    CASE mode = "status-priority-type-title" ->
            FirstNonZero(<<CompareInt(StatusWeight(a.status), StatusWeight(b.status)),
                           CompareInt(PriorityWeight(a.priority), PriorityWeight(b.priority)),
                           CompareInt(TypeWeight(a.type), TypeWeight(b.type)),
                           CompareText(a.title, b.title)>>)
      [] mode = "updated" -> CompareStamp(a.updatedAt, b.updatedAt)
      [] mode = "created" -> CompareStamp(a.createdAt, b.createdAt)
      [] OTHER -> CompareText(a.id, b.id)

\* An insertion that puts a record before the records it ties with.
RECURSIVE InsertBeforeTies(_, _, _, _)
InsertBeforeTies(perm, i, xs, mode) ==
    IF perm = <<>> THEN <<i>>
    ELSE IF CompareBeans(xs[Head(perm)], xs[i], mode) < 0
    THEN <<Head(perm)>> \o InsertBeforeTies(Tail(perm), i, xs, mode)
    ELSE <<i>> \o perm

\* The index i put into the sorted indices perm, after every record that
\* goes before xs[i] or ties with it.
RECURSIVE InsertSorted(_, _, _, _)
InsertSorted(perm, i, xs, mode) ==
    IF perm = <<>> THEN <<i>>
    ELSE IF CompareBeans(xs[Head(perm)], xs[i], mode) <= 0
    THEN <<Head(perm)>> \o InsertSorted(Tail(perm), i, xs, mode)
    ELSE <<i>> \o perm

\* The indices of xs, sorted: the first n of them.
RECURSIVE SortedIndices(_, _, _)
SortedIndices(xs, mode, n) ==
    IF n = 0 THEN <<>>
    ELSE InsertSorted(SortedIndices(xs, mode, n - 1), n, xs, mode)

Reverse(xs) == [i \in 1..Len(xs) |-> xs[Len(xs) + 1 - i]]

\* A sort that starts from the end of its input.
SortBeansFromEnd(xs, mode) ==
    LET rs == Reverse(xs)
        perm == SortedIndices(rs, mode, Len(rs))
    IN  [i \in 1..Len(rs) |-> rs[perm[i]]]

\* sortBeans(beans, mode): a sorted copy of the list.
SortBeans(xs, mode) ==
    LET perm == SortedIndices(xs, mode, Len(xs)) IN
    [i \in 1..Len(xs) |-> xs[perm[i]]]

SortBean(id, status, priority, type, title, updatedAt, createdAt) ==
    [id |-> id, status |-> status, priority |-> priority, type |-> type,
     title |-> title, updatedAt |-> updatedAt, createdAt |-> createdAt]

\* Records to sort; strings that are compared are given as character codes
\* (65 'A', 90 'Z', 97 'a'), timestamps as numbers, 0 for none.
SortPool ==
    {SortBean(<<97>>, "todo", "undefined", "task", <<65, 97>>, 2, 1),
     SortBean(<<98>>, "todo", "normal", "task", <<65, 97>>, 2, 0),
     SortBean(<<99>>, "in-progress", "high", "feature", <<65>>, 0, 0),
     SortBean(<<97>>, "completed", "low", "bug", <<90>>, 1, 2),
     SortBean(<<97, 97>>, "blocked", "urgent", "chore", <<97>>, 0, 2),
     SortBean(<<100>>, "in-progress", "urgent", "task", <<65>>, 3, 3),
     SortBean(<<101>>, "todo", "undefined", "chore", <<65>>, 3, 0)}

SortOff == sq = [phase |-> "off", xs |-> <<>>, mode |-> "none", perm |-> <<>>,
                 once |-> <<>>, twice |-> <<>>]

SortInit ==
    /\ sq \in [phase : {"ready"}, xs : Strings(SortPool, MaxBeans), mode : SortModes,
               perm : {<<>>}, once : {<<>>}, twice : {<<>>}]

\* sortBeans(xs, mode)
SortOnce ==
    /\ sq.phase = "ready"
    /\ sq' = [sq EXCEPT !.phase = "sorted",
                        !.perm = SortedIndices(sq.xs, sq.mode, Len(sq.xs)),
                        !.once = SortBeans(sq.xs, sq.mode)]

\* sortBeans(sortBeans(xs, mode), mode)
SortAgain ==
    /\ sq.phase = "sorted"
    /\ sq' = [sq EXCEPT !.phase = "resorted", !.twice = SortBeans(sq.once, sq.mode)]

varsSort == <<sq>>

\* -------------------------------------------- handleQueryOperation

\* A character code in lower case (65..90 are 'A'..'Z').
ToLowerCode(c) == IF c >= 65 /\ c <= 90 THEN c + 32 ELSE c
ToLowerCase(t) == [i \in 1..Len(t) |-> ToLowerCode(t[i])]

\* text.includes(part)
Includes(text, part) ==
    \E k \in 0..(Len(text) - Len(part)) : SubSeq(text, k + 1, k + Len(part)) = part

\* A tag filter that asks for every listed tag.
HasEveryListedTag(bean, tags) ==
    \A i \in 1..Len(tags) : \E j \in 1..Len(bean.tags.v) : bean.tags.v[j] = tags[i]

\* The record carries at least one of the listed tags (a record without
\* tags carries none).
HasListedTag(bean, tags) ==
    \E i \in 1..Len(tags) : \E j \in 1..Len(bean.tags.v) : bean.tags.v[j] = tags[i]

\* The filter query on the fetched records: a non-empty tags list keeps the
\* records with a listed tag; an absent, null or empty one keeps them all.
FilterQuery(fetched, tags) ==
    IF tags.t = "array" /\ tags.v # <<>>
    THEN SelectSeq(fetched, LAMBDA b : HasListedTag(b, tags.v))
    ELSE fetched

\* A search that compares text as it is written.
MatchesSearchCaseSensitive(bean, text) ==
    \/ Includes(bean.title, text)
    \/ Includes(bean.id, text)
    \/ \E j \in 1..Len(bean.tags.v) : Includes(bean.tags.v[j], text)

\* The search text occurs, whatever the case, in the title, the id or a tag.
MatchesSearch(bean, text) ==
    LET q == ToLowerCase(text) IN
    \/ Includes(ToLowerCase(bean.title), q)
    \/ Includes(ToLowerCase(bean.id), q)
    \/ \E j \in 1..Len(bean.tags.v) : Includes(ToLowerCase(bean.tags.v[j]), q)

\* The search query on the fetched records: an empty or absent text keeps
\* them all; includeClosed === false drops completed and scrapped records.
SearchQuery(fetched, search, includeClosed) ==
    LET open == IF includeClosed = JsBoolean(FALSE)
                THEN SelectSeq(fetched, LAMBDA b : b.status \notin {"completed", "scrapped"})
                ELSE fetched
    IN  IF Truthy(search)
        THEN SelectSeq(open, LAMBDA b : MatchesSearch(b, search.v))
        ELSE open

Null == [t |-> "null", v |-> "null"]

QueryBean(id, title, status, tags) ==
    [id |-> id, title |-> title, status |-> status, tags |-> tags]

\* Fetched records; ids, titles and tags are given as character codes
\* (65 'A', 66 'B', 97 'a', 98 'b', 120 'x', 121 'y').
QueryPool ==
    {QueryBean(<<98, 49>>, <<65, 98>>, "in-progress", JsArray(<<<<120>>, <<121>>>>)),
     QueryBean(<<98, 50>>, <<120>>, "completed", JsArray(<<<<121, 97>>>>)),
     QueryBean(<<97, 51>>, <<66>>, "scrapped", [t |-> "undefined", v |-> <<>>]),
     QueryBean(<<99, 52>>, <<121>>, "draft", JsArray(<<>>))}

QueryTags ==
    {Undefined, Null, JsArray(<<>>), JsArray(<<<<120>>>>), JsArray(<<<<120>>, <<121, 97>>>>),
     JsArray(<<<<122>>>>)}
QuerySearches ==
    {Undefined, JsString(<<>>), JsString(<<97>>), JsString(<<65>>), JsString(<<66>>),
     JsString(<<121>>)}

QueryOff == qy = [phase |-> "off", operation |-> "none", fetched |-> <<>>,
                  tags |-> Undefined, search |-> Undefined,
                  includeClosed |-> Undefined, out |-> <<>>]

QueryInit ==
    /\ qy \in [phase : {"ready"}, operation : {"filter", "search"},
               fetched : Strings(QueryPool, MaxBeans), tags : QueryTags,
               search : QuerySearches,
               includeClosed : {Undefined, JsBoolean(TRUE), JsBoolean(FALSE)},
               out : {<<>>}]
    /\ qy.operation = "filter" => qy.search = Undefined /\ qy.includeClosed = Undefined
    /\ qy.operation = "search" => qy.tags = Undefined

\* handleQueryOperation(backend, {operation: 'filter', tags}) once
\* backend.list has returned the fetched records.
RunFilter ==
    /\ qy.phase = "ready" /\ qy.operation = "filter"
    /\ qy' = [qy EXCEPT !.phase = "done", !.out = FilterQuery(qy.fetched, qy.tags)]

\* handleQueryOperation(backend, {operation: 'search', search, includeClosed})
\* once backend.list has returned the fetched records.
RunSearch ==
    /\ qy.phase = "ready" /\ qy.operation = "search"
    /\ qy' = [qy EXCEPT !.phase = "done",
                        !.out = SearchQuery(qy.fetched, qy.search, qy.includeClosed)]

varsQuery == <<qy>>

\* ------------------------------------------- registerTools (schemas)

MAX_ID_LENGTH == 128
MAX_TITLE_LENGTH == 1024
MAX_METADATA_LENGTH == 128
MAX_DESCRIPTION_LENGTH == 65536
MAX_PATH_LENGTH == 1024
MaxPrefixLength == 32
MaxLines == 5000

\* Argument values. A string is given by its length n and, where a schema
\* compares it with an enumeration, by its text; a number by its integer
\* part n and by whether it is an integer; an array of strings by the
\* length n of its longest element.
Missing == [t |-> "undefined", text |-> "", n |-> 0]
NullArg == [t |-> "null", text |-> "", n |-> 0]
Sized(n) == [t |-> "string", text |-> "", n |-> n]
Word(w, n) == [t |-> "string", text |-> w, n |-> n]
Flag(b) == [t |-> "boolean", text |-> IF b THEN "true" ELSE "false", n |-> 0]
Num(k) == [t |-> "number", text |-> "int", n |-> k]
Fraction(k) == [t |-> "number", text |-> "fraction", n |-> k]
StringArray(n) == [t |-> "array", text |-> "", n |-> n]

\* Schema rules: z.string().min(a).max(b), z.enum([...]), z.boolean(),
\* z.array(z.string().max(b)), z.number().int().min(a).max(b); a rule is
\* required unless it ends in .optional() or .default(...).
ZString(min, max, required) ==
    [kind |-> "string", min |-> min, max |-> max, required |-> required,
     nullable |-> FALSE, values |-> {}]
ZEnum(values, required) ==
    [kind |-> "enum", min |-> 0, max |-> 0, required |-> required,
     nullable |-> FALSE, values |-> values]
ZBoolean ==
    [kind |-> "boolean", min |-> 0, max |-> 0, required |-> FALSE,
     nullable |-> FALSE, values |-> {}]
ZArray(max, nullable) ==
    [kind |-> "array", min |-> 0, max |-> max, required |-> FALSE,
     nullable |-> nullable, values |-> {}]
ZInt(min, max) ==
    [kind |-> "number", min |-> min, max |-> max, required |-> FALSE,
     nullable |-> FALSE, values |-> {}]

QueryOperations == {"refresh", "filter", "search", "sort", "llm_context", "open_config"}
FileOperations == {"read", "edit", "create", "delete"}

ToolNames ==
    {"beans_init", "beans_view", "beans_create", "beans_edit", "beans_reopen",
     "beans_update", "beans_delete", "beans_query", "beans_bean_file", "beans_output"}

EditSchema ==
    [beanId |-> ZString(1, MAX_ID_LENGTH, TRUE),
     status |-> ZString(0, MAX_METADATA_LENGTH, FALSE),
     type |-> ZString(0, MAX_METADATA_LENGTH, FALSE),
     priority |-> ZString(0, MAX_METADATA_LENGTH, FALSE),
     parent |-> ZString(0, MAX_ID_LENGTH, FALSE),
     clearParent |-> ZBoolean,
     blocking |-> ZArray(MAX_ID_LENGTH, FALSE),
     blockedBy |-> ZArray(MAX_ID_LENGTH, FALSE)]

\* inputSchema of each registered tool.
InputSchema(tool) ==
    CASE tool = "beans_init" -> [prefix |-> ZString(0, MaxPrefixLength, FALSE)]
      [] tool = "beans_view" -> [beanId |-> ZString(1, MAX_ID_LENGTH, TRUE)]
      [] tool = "beans_create" ->
            [title |-> ZString(1, MAX_TITLE_LENGTH, TRUE),
             type |-> ZString(1, MAX_METADATA_LENGTH, TRUE),
             status |-> ZString(0, MAX_METADATA_LENGTH, FALSE),
             priority |-> ZString(0, MAX_METADATA_LENGTH, FALSE),
             description |-> ZString(0, MAX_DESCRIPTION_LENGTH, FALSE),
             parent |-> ZString(0, MAX_ID_LENGTH, FALSE)]
      [] tool = "beans_edit" -> EditSchema
      [] tool = "beans_reopen" ->
            [beanId |-> ZString(1, MAX_ID_LENGTH, TRUE),
             requiredCurrentStatus |-> ZEnum({"completed", "scrapped"}, TRUE),
             targetStatus |-> ZString(0, MAX_METADATA_LENGTH, FALSE)]
      [] tool = "beans_update" ->
            [f \in DOMAIN EditSchema \cup {"body"} |->
                IF f = "body" THEN ZString(0, MAX_DESCRIPTION_LENGTH, FALSE)
                ELSE EditSchema[f]]
      [] tool = "beans_delete" ->
            [beanId |-> ZString(1, MAX_ID_LENGTH, TRUE), force |-> ZBoolean]
      [] tool = "beans_query" ->
            [operation |-> ZEnum(QueryOperations, FALSE),
             mode |-> ZEnum(SortModes, FALSE),
             statuses |-> ZArray(MAX_METADATA_LENGTH, TRUE),
             types |-> ZArray(MAX_METADATA_LENGTH, TRUE),
             search |-> ZString(0, MAX_TITLE_LENGTH, FALSE),
             includeClosed |-> ZBoolean,
             tags |-> ZArray(MAX_METADATA_LENGTH, TRUE),
             writeToWorkspaceInstructions |-> ZBoolean]
      [] tool = "beans_bean_file" ->
            [operation |-> ZEnum(FileOperations, TRUE),
             path |-> ZString(1, MAX_PATH_LENGTH, TRUE),
             content |-> ZString(0, MAX_DESCRIPTION_LENGTH, FALSE),
             overwrite |-> ZBoolean]
      [] tool = "beans_output" ->
            [operation |-> ZEnum({"read", "show"}, FALSE),
             lines |-> ZInt(1, MaxLines)]

\* A schema check that does not look at lengths or ranges.
ConformsTypeOnly(rule, v) ==
    IF v.t = "undefined" THEN ~rule.required
    ELSE IF v.t = "null" THEN rule.nullable
    ELSE CASE rule.kind = "string" -> v.t = "string"
           [] rule.kind = "enum" -> v.t = "string" /\ v.text \in rule.values
           [] rule.kind = "boolean" -> v.t = "boolean"
           [] rule.kind = "array" -> v.t = "array"
           [] rule.kind = "number" -> v.t = "number"

\* The value conforms to the rule of its field.
Conforms(rule, v) ==
    IF v.t = "undefined" THEN ~rule.required
    ELSE IF v.t = "null" THEN rule.nullable
    ELSE CASE rule.kind = "string" -> v.t = "string" /\ v.n >= rule.min /\ v.n <= rule.max
           [] rule.kind = "enum" -> v.t = "string" /\ v.text \in rule.values
           [] rule.kind = "boolean" -> v.t = "boolean"
           [] rule.kind = "array" -> v.t = "array" /\ v.n <= rule.max
           [] rule.kind = "number" ->
                 v.t = "number" /\ v.text = "int" /\ v.n >= rule.min /\ v.n <= rule.max

\* The arguments parse under the tool's inputSchema.
ValidInput(tool, args) ==
    \A f \in DOMAIN InputSchema(tool) : Conforms(InputSchema(tool)[f], args[f])

\* The operation after .default(...) has been applied.
OperationOf(args, default) ==
    IF args.operation.t = "undefined" THEN default ELSE args.operation.text

\* The Backend methods a handler calls first, before any reply of the
\* backend is known (none for beans_output with operation 'show'; for
\* beans_query, whose handler hands over to handleQueryOperation, the
\* method the query tests expect).
FirstBackendCall(tool, args) ==
    CASE tool = "beans_init" -> <<"init">>
      [] tool \in {"beans_view", "beans_reopen", "beans_delete"} -> <<"list">>
      [] tool = "beans_create" -> <<"create">>
      [] tool \in {"beans_edit", "beans_update"} -> <<"update">>
      [] tool = "beans_query" ->
            (CASE OperationOf(args, "refresh") = "open_config" -> <<"openConfig">>
               [] OperationOf(args, "refresh") = "llm_context" -> <<"graphqlSchema">>
               [] OTHER -> <<"list">>)
      [] tool = "beans_bean_file" ->
            (CASE args.operation.text = "read" -> <<"readBeanFile">>
               [] args.operation.text = "edit" -> <<"editBeanFile">>
               [] args.operation.text = "create" -> <<"createBeanFile">>
               [] OTHER -> <<"deleteBeanFile">>)
      [] tool = "beans_output" ->
            IF OperationOf(args, "read") = "read" THEN <<"readOutputLog">> ELSE <<>>

\* Arguments every schema field of which is acceptable.
BaseArgs(tool) ==
    [f \in DOMAIN InputSchema(tool) |->
        LET rule == InputSchema(tool)[f] IN
        IF ~rule.required THEN Missing
        ELSE IF rule.kind = "enum"
             THEN (IF "read" \in rule.values THEN Word("read", 4) ELSE Word("completed", 9))
             ELSE Sized(1)]

ArgPool ==
    {Missing, NullArg, Flag(TRUE), Fraction(1),
     Word("read", 4), Word("show", 4), Word("delete", 6), Word("sort", 4),
     Word("open_config", 11), Word("updated", 7), Word("scrapped", 8), Word("bogus", 5)}
    \cup {Sized(n) : n \in {0, 1, MaxPrefixLength, MaxPrefixLength + 1,
                             MAX_ID_LENGTH, MAX_ID_LENGTH + 1,
                             MAX_TITLE_LENGTH, MAX_TITLE_LENGTH + 1,
                             MAX_DESCRIPTION_LENGTH, MAX_DESCRIPTION_LENGTH + 1}}
    \cup {Num(k) : k \in {0, 1, MaxLines, MaxLines + 1}}
    \cup {StringArray(n) : n \in {0, MAX_ID_LENGTH, MAX_ID_LENGTH + 1}}

\* Requests that differ from acceptable arguments in at most two fields.
Requests(tool) ==
    {[[BaseArgs(tool) EXCEPT ![f] = v] EXCEPT ![g] = w] :
        f \in DOMAIN InputSchema(tool), g \in DOMAIN InputSchema(tool),
        v \in ArgPool, w \in ArgPool}

NoToolResult == [isError |-> FALSE, text |-> "none"]

ToolOff == rq = [phase |-> "off", tool |-> "none", args |-> <<>>,
                 handlerRan |-> FALSE, calls |-> <<>>, result |-> NoToolResult]

ToolInit ==
    \E tool \in ToolNames : \E args \in Requests(tool) :
        rq = [phase |-> "received", tool |-> tool, args |-> args,
              handlerRan |-> FALSE, calls |-> <<>>, result |-> NoToolResult]

\* tools/call with arguments that do not parse under the inputSchema: the
\* server answers with an error result and the handler is not called.
RejectRequest ==
    /\ rq.phase = "received"
    /\ ~ValidInput(rq.tool, rq.args)
    /\ rq' = [rq EXCEPT !.phase = "answered",
                        !.result = [isError |-> TRUE, text |-> "Input validation error"]]

\* tools/call with arguments that parse: the handler runs and calls the
\* backend; a rejection of the backend becomes an error result.
HandleRequest(failed) ==
    /\ rq.phase = "received"
    /\ ValidInput(rq.tool, rq.args)
    /\ rq' = [rq EXCEPT !.phase = "answered", !.handlerRan = TRUE,
                        !.calls = FirstBackendCall(rq.tool, rq.args),
                        !.result = IF failed /\ FirstBackendCall(rq.tool, rq.args) # <<>>
                                   THEN [isError |-> TRUE, text |-> "backend error"]
                                   ELSE [isError |-> FALSE, text |-> "json"]]

varsTool == <<rq>>

vars == <<pw, files, dirs, fop, lg, rt, su, inner, installs, store, hp, penv, beans, be, bh, sq, qy, rq>>

varsPath == <<pw>>
varsFiles == <<files, dirs, fop>>
varsLog == <<lg>>
varsRoots == <<rt>>
varsStart == <<su>>
varsMain == <<inner, installs, store, hp>>

PathIdle == pw = PathOff
FilesIdle == files = <<>> /\ dirs = {} /\ fop = FopOff
LogIdle == lg = LgOff
RootsIdle == rt = RtOff
StartIdle == su = SuOff
MainIdle == inner = "none" /\ installs = <<>> /\ store = <<>> /\ hp = <<>>

SpecPathInit == PathInit /\ FilesIdle /\ LogIdle /\ RootsIdle /\ StartIdle /\ MainIdle /\ CliOff /\ SortOff /\ QueryOff /\ ToolOff
SpecPathNext == CheckPath /\ UNCHANGED <<varsFiles, varsLog, varsRoots, varsStart, varsMain, varsCli, varsSort, varsQuery, varsTool>>
SpecPath == SpecPathInit /\ [][SpecPathNext]_vars

SpecFilesInit == FilesInit /\ PathIdle /\ LogIdle /\ RootsIdle /\ StartIdle /\ MainIdle /\ CliOff /\ SortOff /\ QueryOff /\ ToolOff
SpecFilesNext ==
    \/ ReadFileOp /\ UNCHANGED <<varsPath, varsLog, varsRoots, varsStart, varsMain, varsCli, varsSort, varsQuery, varsTool>>
    \/ EditFileOp /\ UNCHANGED <<varsPath, varsLog, varsRoots, varsStart, varsMain, varsCli, varsSort, varsQuery, varsTool>>
    \/ CreateFileOp /\ UNCHANGED <<varsPath, varsLog, varsRoots, varsStart, varsMain, varsCli, varsSort, varsQuery, varsTool>>
    \/ DeleteFileOp /\ UNCHANGED <<varsPath, varsLog, varsRoots, varsStart, varsMain, varsCli, varsSort, varsQuery, varsTool>>
SpecFiles == SpecFilesInit /\ [][SpecFilesNext]_vars

SpecLogInit == LogInit /\ PathIdle /\ FilesIdle /\ RootsIdle /\ StartIdle /\ MainIdle /\ CliOff /\ SortOff /\ QueryOff /\ ToolOff
SpecLogNext == ReadLog /\ UNCHANGED <<varsPath, varsFiles, varsRoots, varsStart, varsMain, varsCli, varsSort, varsQuery, varsTool>>
SpecLog == SpecLogInit /\ [][SpecLogNext]_vars

SpecRootsInit == RootsInit /\ PathIdle /\ FilesIdle /\ LogIdle /\ StartIdle /\ MainIdle /\ CliOff /\ SortOff /\ QueryOff /\ ToolOff
SpecRootsNext == ResolveRoots /\ UNCHANGED <<varsPath, varsFiles, varsLog, varsStart, varsMain, varsCli, varsSort, varsQuery, varsTool>>
SpecRoots == SpecRootsInit /\ [][SpecRootsNext]_vars

SpecStartInit == StartInit /\ PathIdle /\ FilesIdle /\ LogIdle /\ RootsIdle /\ MainIdle /\ CliOff /\ SortOff /\ QueryOff /\ ToolOff
SpecStartNext ==
    \/ StartParse /\ UNCHANGED <<varsPath, varsFiles, varsLog, varsRoots, varsMain, varsCli, varsSort, varsQuery, varsTool>>
    \/ StartConnected /\ UNCHANGED <<varsPath, varsFiles, varsLog, varsRoots, varsMain, varsCli, varsSort, varsQuery, varsTool>>
    \/ StartResolved /\ UNCHANGED <<varsPath, varsFiles, varsLog, varsRoots, varsMain, varsCli, varsSort, varsQuery, varsTool>>
SpecStart == SpecStartInit /\ [][SpecStartNext]_vars

\* startBeansMcpServer with the client's tool calls served as they arrive.
SpecServeNext ==
    \/ SpecStartNext
    \/ StartToolCall /\ UNCHANGED <<varsPath, varsFiles, varsLog, varsRoots, varsMain, varsCli, varsSort, varsQuery, varsTool>>
SpecServe == SpecStartInit /\ [][SpecServeNext]_vars

\* The delegate with two concurrent tool invocations over it, each a delete
\* or an update of a record's status.
Init == MainInit /\ PathIdle /\ FilesIdle /\ LogIdle /\ RootsIdle /\ StartIdle /\ CliOff /\ SortOff /\ QueryOff /\ ToolOff
Next ==
    \/ \E b \in Backends : SetInner(b) /\ UNCHANGED <<varsPath, varsFiles, varsLog, varsRoots, varsStart, varsCli, varsSort, varsQuery, varsTool>>
    \/ \E p \in Procs, id \in BeanIds, force \in BOOLEAN :
          BeginDelete(p, id, force) /\ UNCHANGED <<varsPath, varsFiles, varsLog, varsRoots, varsStart, varsCli, varsSort, varsQuery, varsTool>>
    \/ \E p \in Procs, failed \in BOOLEAN :
          ListSettles(p, failed) /\ UNCHANGED <<varsPath, varsFiles, varsLog, varsRoots, varsStart, varsCli, varsSort, varsQuery, varsTool>>
    \/ \E p \in Procs, failed \in BOOLEAN :
          DeleteSettles(p, failed) /\ UNCHANGED <<varsPath, varsFiles, varsLog, varsRoots, varsStart, varsCli, varsSort, varsQuery, varsTool>>
    \/ \E p \in Procs, id \in BeanIds, st \in Statuses :
          BeginCall(p, "update", id, st) /\ UNCHANGED <<varsPath, varsFiles, varsLog, varsRoots, varsStart, varsCli, varsSort, varsQuery, varsTool>>
    \/ \E p \in Procs, failed \in BOOLEAN :
          CallSettles(p, failed) /\ UNCHANGED <<varsPath, varsFiles, varsLog, varsRoots, varsStart, varsCli, varsSort, varsQuery, varsTool>>
Spec == Init /\ [][Next]_vars

\* The delegate with two concurrent calls over it, each of any method of
\* the Backend interface (an update sets a record to completed).
SpecDelegateNext ==
    \/ \E b \in Backends : SetInner(b) /\ UNCHANGED <<varsPath, varsFiles, varsLog, varsRoots, varsStart, varsCli, varsSort, varsQuery, varsTool>>
    \/ \E p \in Procs, m \in Methods \ {"update"} :
          BeginCall(p, m, "none", "none")
             /\ UNCHANGED <<varsPath, varsFiles, varsLog, varsRoots, varsStart, varsCli, varsSort, varsQuery, varsTool>>
    \/ \E p \in Procs, id \in BeanIds :
          BeginCall(p, "update", id, "completed")
             /\ UNCHANGED <<varsPath, varsFiles, varsLog, varsRoots, varsStart, varsCli, varsSort, varsQuery, varsTool>>
    \/ \E p \in Procs, failed \in BOOLEAN :
          CallSettles(p, failed) /\ UNCHANGED <<varsPath, varsFiles, varsLog, varsRoots, varsStart, varsCli, varsSort, varsQuery, varsTool>>
SpecDelegate == Init /\ [][SpecDelegateNext]_vars

\* The delegate with two concurrent tool invocations over it, each a reopen
\* or an update of a record's status.
SpecReopenNext ==
    \/ \E b \in Backends : SetInner(b) /\ UNCHANGED <<varsPath, varsFiles, varsLog, varsRoots, varsStart, varsCli, varsSort, varsQuery, varsTool>>
    \/ \E p \in Procs, id \in BeanIds, req \in {"completed", "scrapped"} :
          BeginReopen(p, id, req, "todo")
             /\ UNCHANGED <<varsPath, varsFiles, varsLog, varsRoots, varsStart, varsCli, varsSort, varsQuery, varsTool>>
    \/ \E p \in Procs, failed \in BOOLEAN :
          ReopenListSettles(p, failed)
             /\ UNCHANGED <<varsPath, varsFiles, varsLog, varsRoots, varsStart, varsCli, varsSort, varsQuery, varsTool>>
    \/ \E p \in Procs, id \in BeanIds, st \in {"completed", "scrapped"} :
          BeginCall(p, "update", id, st)
             /\ UNCHANGED <<varsPath, varsFiles, varsLog, varsRoots, varsStart, varsCli, varsSort, varsQuery, varsTool>>
    \/ \E p \in Procs, failed \in BOOLEAN :
          CallSettles(p, failed) /\ UNCHANGED <<varsPath, varsFiles, varsLog, varsRoots, varsStart, varsCli, varsSort, varsQuery, varsTool>>
SpecReopen == Init /\ [][SpecReopenNext]_vars

varsOld == <<varsPath, varsFiles, varsLog, varsRoots, varsStart, varsMain, varsSort, varsQuery, varsTool>>
OldIdle ==
    PathIdle /\ FilesIdle /\ LogIdle /\ RootsIdle /\ StartIdle /\ MainIdle /\ SortOff /\ QueryOff /\ ToolOff

\* One list call of the backend on the records the tool holds.
SpecListInit == CliInit({OneEnv}, {NoBeans, ThreeBeans}, 1) /\ OldIdle
SpecListNext ==
    \/ \E o \in ListOptions : CliBegin("list", "", o) /\ UNCHANGED varsOld
    \/ \E outcome \in Outcomes, applied \in BOOLEAN :
          CliSettle(outcome, applied) /\ UNCHANGED varsOld
SpecList == SpecListInit /\ [][SpecListNext]_vars

\* One update call of the backend, with any combination of parent and
\* clearParent, on a record the tool holds or on an id it does not know.
SpecUpdateInit == CliInit({OneEnv}, RelatedStores, 1) /\ OldIdle
SpecUpdateNext ==
    \/ \E id \in {"r1", "r7"},
          u \in Updates({Undefined, JsString("completed")},
                        {Undefined, JsString(""), JsString("r2")},
                        {Undefined, JsBoolean(FALSE), JsBoolean(TRUE)},
                        {Undefined, JsArray(<<>>), JsArray(<<"r2">>)},
                        {Undefined, JsArray(<<"r3">>)}),
          body \in {Undefined, JsString("n")} :
          CliBegin("update", id, [u EXCEPT !["body"] = body]) /\ UNCHANGED varsOld
    \/ \E outcome \in Outcomes, applied \in BOOLEAN :
          CliSettle(outcome, applied) /\ UNCHANGED varsOld
SpecUpdate == SpecUpdateInit /\ [][SpecUpdateNext]_vars

\* Up to MaxCalls update calls in a row that supply relationship lists.
SpecRelationsInit == CliInit({OneEnv}, RelatedStores, MaxCalls) /\ OldIdle
SpecRelationsNext ==
    \/ \E u \in Updates({Undefined}, {Undefined}, {Undefined},
                        {Undefined, JsArray(<<"r2">>), JsArray(<<"r3">>)},
                        {Undefined, JsArray(<<"r2">>)}) :
          CliBegin("update", "r1", u) /\ UNCHANGED varsOld
    \/ \E outcome \in Outcomes \ {"overflow", "garbage"}, applied \in BOOLEAN :
          CliSettle(outcome, applied) /\ UNCHANGED varsOld
SpecRelations == SpecRelationsInit /\ [][SpecRelationsNext]_vars

\* One call of any backend operation that invokes the tool, under any
\* environment of the server.
SpecCliInit == CliInit(ParentEnvs, {ThreeBeans}, 1) /\ OldIdle
SpecCliNext ==
    \/ \E c \in CliCalls : CliBegin(c.op, c.id, c.o) /\ UNCHANGED varsOld
    \/ \E outcome \in Outcomes, applied \in BOOLEAN :
          CliSettle(outcome, applied) /\ UNCHANGED varsOld
SpecCli == SpecCliInit /\ [][SpecCliNext]_vars

\* sortBeans applied to a list of records, and again to its result.
SpecSortInit ==
    SortInit /\ PathIdle /\ FilesIdle /\ LogIdle /\ RootsIdle /\ StartIdle /\ MainIdle
        /\ CliOff /\ QueryOff /\ ToolOff
SpecSortNext ==
    \/ SortOnce /\ UNCHANGED <<varsPath, varsFiles, varsLog, varsRoots, varsStart, varsMain, varsCli, varsQuery, varsTool>>
    \/ SortAgain /\ UNCHANGED <<varsPath, varsFiles, varsLog, varsRoots, varsStart, varsMain, varsCli, varsQuery, varsTool>>
SpecSort == SpecSortInit /\ [][SpecSortNext]_vars

\* One filter or search query over records already fetched.
SpecQueryInit ==
    QueryInit /\ PathIdle /\ FilesIdle /\ LogIdle /\ RootsIdle /\ StartIdle /\ MainIdle
        /\ CliOff /\ SortOff /\ ToolOff
SpecQueryNext ==
    \/ RunFilter /\ UNCHANGED <<varsPath, varsFiles, varsLog, varsRoots, varsStart, varsMain, varsCli, varsSort, varsTool>>
    \/ RunSearch /\ UNCHANGED <<varsPath, varsFiles, varsLog, varsRoots, varsStart, varsMain, varsCli, varsSort, varsTool>>
SpecQuery == SpecQueryInit /\ [][SpecQueryNext]_vars

\* One tools/call request checked against the schema of its tool.
SpecToolInit ==
    ToolInit /\ PathIdle /\ FilesIdle /\ LogIdle /\ RootsIdle /\ StartIdle /\ MainIdle
        /\ CliOff /\ SortOff /\ QueryOff
SpecToolNext ==
    \/ RejectRequest /\ UNCHANGED <<varsPath, varsFiles, varsLog, varsRoots, varsStart, varsMain, varsCli, varsSort, varsQuery>>
    \/ \E failed \in BOOLEAN :
          HandleRequest(failed) /\ UNCHANGED <<varsPath, varsFiles, varsLog, varsRoots, varsStart, varsMain, varsCli, varsSort, varsQuery>>
SpecTool == SpecToolInit /\ [][SpecToolNext]_vars

\* ------------------------------------------------------------------ C7

\* C7 (as claimed): isPathWithinRoot(root, target) is true exactly when the
\* resolved target is a proper descendant of the resolved root.
C7_ExactlyProperDescendants ==
    pw.result \in {"true", "false"} =>
        pw.result = B2S(ProperDescendant(pw.root, pw.target))

\* ------------------------------------------------------------- C6, C8, C9

FileOps == {"read", "edit", "create", "delete"}
BeansRoot == GetBeansRoot(WorkspaceRoot)

\* The path the operation was asked for, after cleaning, resolves strictly
\* inside .beans.
AskedInside ==
    LET cleaned == StripLeadingSlashes(Trim(fop.input)) IN
    /\ cleaned # <<>>
    /\ ProperDescendant(BeansRoot, Resolve2(BeansRoot, cleaned))

\* An operation whose path is not strictly inside .beans fails, touches
\* nothing and leaves the disk as it was.
EscapeRefusedUntouched ==
    ~AskedInside =>
        /\ fop.status = "error"
        /\ fop.accesses = {}
        /\ files = fop.before.files
        /\ dirs = fop.before.dirs

\* C6 (as claimed): every filesystem access of a bean-file operation,
\* parent-directory creation included, targets a path strictly inside
\* <workspaceRoot>/.beans, and an operation on a path that resolves outside
\* fails before any access and creates no directory.
C6_EveryAccessStrictlyInside ==
    fop.op \in FileOps =>
        /\ \A a \in fop.accesses : ProperDescendant(BeansRoot, a.path)
        /\ EscapeRefusedUntouched

\* C6 (amended): every file read, write and removal targets a path strictly
\* inside <workspaceRoot>/.beans and every parent-directory creation targets
\* .beans itself or a directory strictly inside it; an operation on a path
\* that resolves outside fails before any access and creates no directory.
C6_AccessesStayInSandbox ==
    fop.op \in FileOps =>
        /\ \A a \in fop.accesses :
              \/ ProperDescendant(BeansRoot, a.path)
              \/ a.kind = "mkdir" /\ a.path = BeansRoot
        /\ EscapeRefusedUntouched

\* A createBeanFile on "/.." (a leading separator, then a ".." segment) was
\* refused as a sandbox violation on a disk that holds files.
C6_Witness ==
    /\ fop.op = "create"
    /\ fop.input = <<"/", ".", ".">>
    /\ fop.error = "Path must stay within .beans directory"
    /\ OutsideA \in DOMAIN files

IsFileContent(h) == h \notin {"absent", "dir"}

\* C8: createBeanFile on a path that already holds a file: without overwrite
\* it fails and the file keeps its content; with overwrite (and the write not
\* cut short by an I/O fault) it succeeds and the file holds the new content.
C8_ExclusiveCreate ==
    (/\ fop.op = "create"
     /\ fop.target # <<>>
     /\ IsFileContent(Holds(fop.target, fop.before))) =>
        /\ ~fop.overwrite =>
              /\ fop.status = "error"
              /\ files = fop.before.files
        /\ (fop.overwrite /\ ~fop.fault) =>
              /\ fop.status = "ok"
              /\ Holds(fop.target, Disk) = fop.content

\* createBeanFile with overwrite replaced the content c0 of .beans/a by c1.
C8_Witness ==
    /\ fop.op = "create"
    /\ fop.overwrite
    /\ fop.target = FileA
    /\ Holds(FileA, fop.before) = "c0"
    /\ fop.status = "ok"
    /\ Holds(FileA, Disk) = "c1"

\* C9: deleteBeanFile on a path that holds no file fails, and it reports
\* success only when the target was a file and is gone afterwards.
C9_DeleteMissingFails ==
    fop.op = "delete" =>
        /\ (fop.target = <<>> \/ ~IsFileContent(Holds(fop.target, fop.before)))
              => fop.status = "error"
        /\ fop.status = "ok" =>
              /\ IsFileContent(Holds(fop.target, fop.before))
              /\ Holds(fop.target, Disk) = "absent"

\* deleteBeanFile was asked for a path inside the sandbox that holds nothing,
\* and failed.
C9_Witness ==
    /\ fop.op = "delete"
    /\ fop.target # <<>>
    /\ Holds(fop.target, fop.before) = "absent"
    /\ fop.status = "error"

\* ------------------------------------------------------------------ C10

Min(a, b) == IF a < b THEN a ELSE b

\* The last n elements of s.
LastN(s, n) == SubSeq(s, Len(s) - n + 1, Len(s))

NonBlank(l) == l # ""

\* C10 (as claimed): readOutputLog with lines = N >= 1 on a log of L lines
\* returns exactly the last min(N, L) lines of the log, in order, with
\* linesReturned = min(N, L).
C10_LastLinesOfLog ==
    (lg.phase = "done" /\ lg.out.status = "ok" /\ lg.lines >= 1) =>
        /\ lg.out.content = LastN(lg.file, Min(lg.lines, Len(lg.file)))
        /\ lg.out.linesReturned = Min(lg.lines, Len(lg.file))

\* C10 (amended): blank lines are skipped and not counted: on a log with L
\* non-blank lines the result is exactly the last min(N, L) non-blank lines,
\* in their original order, with linesReturned = min(N, L); the earliest
\* excess lines are the ones dropped.
C10_LastNonBlankLines ==
    (lg.phase = "done" /\ lg.out.status = "ok" /\ lg.lines >= 1) =>
        LET kept == SelectSeq(lg.file, NonBlank) IN
        /\ lg.out.content = LastN(kept, Min(lg.lines, Len(kept)))
        /\ lg.out.linesReturned = Min(lg.lines, Len(kept))

\* readOutputLog({lines: 2}) on the log x, y, y, x returned y, x.
C10_Witness ==
    /\ lg.phase = "done"
    /\ lg.lines = 2
    /\ lg.file = <<"x", "y", "y", "x">>
    /\ lg.out.status = "ok"
    /\ lg.out.content = <<"y", "x">>
    /\ lg.out.linesReturned = 2

\* ------------------------------------------------------------------ C11

\* The log directory readOutputLog designates: BEANS_VSCODE_LOG_DIR, else the
\* backend's logDir, else none.
DesignatedLogDir == OrElse(lg.envDir, lg.logDir)

WithinWorkspaceOrLogDir(path) ==
    \/ ProperDescendant(WorkspaceRoot, path)
    \/ DesignatedLogDir # <<>> /\ ProperDescendant(DesignatedLogDir, path)

\* C11: readOutputLog opens the log file only if the resolved log path lies
\* strictly within the workspace root or strictly within the designated log
\* directory; when it lies within neither the call fails with the guard's
\* error and the file is never opened.
C11_LogOpenedOnlyWithinRoots ==
    lg.phase = "done" =>
        /\ lg.out.opened => WithinWorkspaceOrLogDir(lg.out.path)
        /\ ~WithinWorkspaceOrLogDir(lg.out.path) =>
               /\ lg.out.status = "error"
               /\ lg.out.error # "io"
               /\ ~lg.out.opened

\* A log outside the workspace was opened because it lies in the log
\* directory named by BEANS_VSCODE_LOG_DIR.
C11_Witness ==
    /\ lg.phase = "done"
    /\ lg.envDir = <<"/", "t">>
    /\ lg.out.path = <<"/", "t", "/", "o", ".", "log">>
    /\ ~ProperDescendant(WorkspaceRoot, lg.out.path)
    /\ lg.out.opened
    /\ lg.out.status = "ok"

\* ------------------------------------------------------------------ C5

\* The local path a well-formed file URI names: the part after the host
\* with its percent-escapes decoded.
LocalPathOf(uri) ==
    LET p == UrlOfFileUri(uri).pathname IN
    [i \in 1..Len(p) |-> IF p[i] = "%20" THEN " " ELSE p[i]]

FileRoots(roots) == SelectSeq(roots, LAMBDA u : StartsWith(u, FilePrefix))

\* C5 (as claimed): the result is the local path of the first declared
\* file:// root, and it is null when the client declares no roots, declares
\* no file:// root, or the request is rejected.
C5_FirstLocalRootPath ==
    rt.phase = "done" =>
        LET fileRoots == FileRoots(rt.roots) IN
        /\ (rt.rejected \/ fileRoots = <<>>) => rt.out = NullRoot
        /\ (~rt.rejected /\ fileRoots # <<>> /\ UrlOfFileUri(fileRoots[1]).valid)
              => rt.out = RootPath(LocalPathOf(fileRoots[1]))

\* ------------------------------------------------------------------ C4

\* C4: when startBeansMcpServer finishes the installed backend is rooted at
\* the explicit workspace root if one was given (resolver never consulted, no
\* swap), else at the resolver's root if it is non-null (one swap, same CLI
\* path), else at the current directory (resolver consulted once, no swap).
C4_WorkspacePriority ==
    su.pc = "done" =>
        /\ (su.argv # <<>> /\ ~StartsWithDash(su.argv[1])) => su.parsed.workspaceExplicit
        /\ IF su.parsed.workspaceExplicit
           THEN /\ su.inner.workspaceRoot = su.parsed.workspaceRoot
                /\ su.resolverCalls = 0
                /\ su.swaps = 0
           ELSE IF ~su.resolved.isNull
           THEN /\ su.inner.workspaceRoot = su.resolved.path
                /\ su.inner.cliPath = su.parsed.cliPath
                /\ su.resolverCalls = 1
                /\ su.swaps = 1
           ELSE /\ su.inner.workspaceRoot = Cwd
                /\ su.resolverCalls = 1
                /\ su.swaps = 0

\* Started with --cli-path /y and no workspace, the server finished on the
\* root /r the resolver returned.
C4_Witness ==
    /\ su.pc = "done"
    /\ su.argv = <<<<"--cli-path">>, <<"/", "y">>>>
    /\ ~su.parsed.workspaceExplicit
    /\ su.inner = BeansCliBackend(<<"/", "r">>, <<"/", "y">>, <<>>)
    /\ su.swaps = 1

\* ------------------------------------------------------------ C1, C2, C3

\* backend.delete was called by p's handler.
DeleteCalled(p) ==
    \/ hp[p].pc = "deleting"
    \/ \E i \in 1..Len(hp[p].log) : hp[p].log[i].method = "delete"

\* C1: the delete handler calls backend.delete(id) if and only if the id is
\* in the list snapshot it fetched and (force is set or the record's status
\* is draft or scrapped); otherwise it fails and backend.delete is not called.
C1_DeleteOnlyWhenAllowed ==
    \A p \in Procs :
        (hp[p].kind = "delete" /\ hp[p].pc \in {"deleting", "done"}) =>
            /\ DeleteCalled(p) <=>
                  /\ hp[p].found \in Statuses
                  /\ (hp[p].force \/ hp[p].found \in {"draft", "scrapped"})
            /\ ~DeleteCalled(p) => hp[p].result = "error"

\* An unforced delete of the todo record r1 was refused without a delete
\* call, and a forced delete of the same record removed it.
C1_Witness ==
    /\ hp["p1"].kind = "delete" /\ hp["p1"].beanId = "r1" /\ ~hp["p1"].force
    /\ hp["p1"].found = "todo" /\ hp["p1"].result = "error" /\ ~DeleteCalled("p1")
    /\ hp["p2"].kind = "delete" /\ hp["p2"].beanId = "r1" /\ hp["p2"].force
    /\ hp["p2"].found = "todo" /\ hp["p2"].result = "ok"
    /\ store["b1"]["r1"] = "absent"

\* C2: every call made on the delegate, of any method, goes to the backend
\* installed at the moment of the call: the last one given to setInner
\* before it (the constructor's, when there was none).
C2_ForwardsToInstalled ==
    \A p \in Procs :
        /\ hp[p].pc = "calling" => hp[p].bound = installs[hp[p].epoch]
        /\ \A i \in 1..Len(hp[p].log) :
              hp[p].log[i].bound = installs[hp[p].log[i].epoch]

\* After setInner(b2), a readBeanFile call was made on the delegate and b2
\* served it, while an earlier call had gone to b1.
C2_Witness ==
    /\ installs = <<"b1", "b2">>
    /\ hp["p1"].log # <<>> /\ hp["p1"].log[1].epoch = 1 /\ hp["p1"].log[1].by = "b1"
    /\ hp["p2"].log # <<>> /\ hp["p2"].log[1].method = "readBeanFile"
    /\ hp["p2"].log[1].epoch = 2 /\ hp["p2"].log[1].by = "b2"

\* C3: each call is served by one backend, the one installed when it began,
\* also when setInner ran while it was in flight; and the delegate always
\* holds, whole, the backend installed last.
C3_InFlightKeepsBackend ==
    /\ inner \in Backends
    /\ inner = installs[Len(installs)]
    /\ \A p \in Procs : \A i \in 1..Len(hp[p].log) :
          hp[p].log[i].by = installs[hp[p].log[i].epoch]

\* A call that began on b1 settled on b1 after setInner(b2) had run.
C3_Witness ==
    /\ inner = "b2"
    /\ \E p \in Procs :
          /\ hp[p].log # <<>>
          /\ hp[p].log[1].epoch = 1
          /\ hp[p].log[1].doneEpoch = 2
          /\ hp[p].log[1].by = "b1"

\* ------------------------------------------------------------------ C12

\* A list option that constrains: a non-empty list, a non-empty string.
NonEmptyField(x) ==
    \/ x.t = "array" /\ x.v # <<>>
    \/ x.t = "string" /\ x.v # ""

\* The record satisfies the field of the options, when that field constrains.
MatchesOption(rec, o, field) ==
    NonEmptyField(o[field]) =>
        CASE field = "status" -> \E i \in 1..Len(o[field].v) : o[field].v[i] = rec.status
          [] field = "type" -> \E i \in 1..Len(o[field].v) : o[field].v[i] = rec.type
          [] OTHER -> \E i \in 1..Len(rec.title) : rec.title[i] = o[field].v

ListFields == {"status", "type", "search"}

\* C12: list(F) sends the tool exactly the non-empty fields of F, each as
\* given, and a successful list returns exactly the records the tool holds
\* that match every non-empty field of F: all of them when F is empty.
C12_ListSendsNonEmptyFields ==
    (be.op = "list" /\ be.pc \in {"running", "done"}) =>
        LET sent == be.execs[1].variables["filter"].v IN
        /\ Len(be.execs) = 1
        /\ be.execs[1].query = "LIST_BEANS_QUERY"
        /\ DOMAIN sent = {f \in ListFields : NonEmptyField(be.o[f])}
        /\ \A f \in DOMAIN sent : sent[f] = be.o[f]
        /\ (be.pc = "done" /\ be.result.status = "ok") =>
              /\ DOMAIN be.result.beans =
                    {id \in DOMAIN bh.initial :
                        \A f \in ListFields : MatchesOption(bh.initial[id], be.o, f)}
              /\ \A id \in DOMAIN be.result.beans : be.result.beans[id] = bh.initial[id]
              /\ (\A f \in ListFields : ~NonEmptyField(be.o[f])) =>
                    be.result.beans = bh.initial

\* list({status: [], type: ['bug'], search: ''}) on three records returned
\* the one bug.
C12_Witness ==
    /\ be.op = "list" /\ be.pc = "done" /\ be.result.status = "ok"
    /\ be.o["status"] = JsArray(<<>>)
    /\ be.o["type"] = JsArray(<<"bug">>)
    /\ be.o["search"] = JsString("")
    /\ DOMAIN bh.initial = {"r1", "r2", "r3"}
    /\ DOMAIN be.result.beans = {"r1"}

\* ------------------------------------------------------------------ C13

\* The mutation input of the update under way, as sent to the tool.
SentInput == be.execs[1].variables["input"].v

\* C13: the mutation input of update(id, u) carries parent = u.parent
\* whenever u.parent is supplied, clearParent or not; it carries parent = ''
\* when u.parent is absent and clearParent is true; it carries no parent
\* when neither is supplied.
C13_ParentWinsOverClear ==
    (be.op = "update" /\ be.pc \in {"running", "done"}) =>
        /\ be.o["parent"] # Undefined =>
              "parent" \in DOMAIN SentInput /\ SentInput["parent"] = be.o["parent"]
        /\ (be.o["parent"] = Undefined /\ be.o["clearParent"] = JsBoolean(TRUE)) =>
              "parent" \in DOMAIN SentInput /\ SentInput["parent"] = JsString("")
        /\ (be.o["parent"] = Undefined /\ be.o["clearParent"] # JsBoolean(TRUE)) =>
              "parent" \notin DOMAIN SentInput

\* update('r1', {parent: 'r2', clearParent: true}) on a record whose parent
\* was r3 succeeded and left the record with parent r2.
C13_Witness ==
    /\ be.op = "update" /\ be.pc = "done" /\ be.result.status = "ok"
    /\ be.id = "r1"
    /\ be.o["parent"] = JsString("r2")
    /\ be.o["clearParent"] = JsBoolean(TRUE)
    /\ bh.initial["r1"].parentId = "r3"
    /\ beans["r1"].parentId = "r2"

\* ------------------------------------------------------------------ C14

UpdatesOf(id) ==
    {i \in 1..Len(bh.calls) : bh.calls[i].op = "update" /\ bh.calls[i].id = id}

\* The ids supplied so far, in the given field, by the updates of a record.
SuppliedSoFar(id, field) ==
    UNION {IF bh.calls[i].o[field] = Undefined THEN {}
           ELSE {bh.calls[i].o[field].v[j] : j \in 1..Len(bh.calls[i].o[field].v)} :
           i \in UpdatesOf(id)}

AllSucceeded == \A i \in 1..Len(bh.calls) : bh.calls[i].status = "ok"

\* C14: the lists supplied to update are additions: no update removes an id
\* from a record's blocking or blockedBy set, nothing but supplied ids is
\* added, and after updates that all succeeded each set is the initial set
\* united with every list supplied so far.
C14_RelationsOnlyGrow ==
    \A id \in DOMAIN bh.initial :
        /\ bh.initial[id].blockingIds \subseteq beans[id].blockingIds
        /\ bh.initial[id].blockedByIds \subseteq beans[id].blockedByIds
        /\ beans[id].blockingIds \subseteq
              bh.initial[id].blockingIds \cup SuppliedSoFar(id, "blocking")
        /\ beans[id].blockedByIds \subseteq
              bh.initial[id].blockedByIds \cup SuppliedSoFar(id, "blockedBy")
        /\ AllSucceeded =>
              /\ beans[id].blockingIds =
                    bh.initial[id].blockingIds \cup SuppliedSoFar(id, "blocking")
              /\ beans[id].blockedByIds =
                    bh.initial[id].blockedByIds \cup SuppliedSoFar(id, "blockedBy")

\* update with ['r2'] on an empty blocking set, then with ['r3'], both
\* successful, left exactly r2 and r3.
C14_Witness ==
    /\ Len(bh.calls) = 2
    /\ AllSucceeded
    /\ bh.initial["r1"].blockingIds = {}
    /\ bh.calls[1].o["blocking"] = JsArray(<<"r2">>)
    /\ bh.calls[2].o["blocking"] = JsArray(<<"r3">>)
    /\ beans["r1"].blockingIds = {"r2", "r3"}

\* ------------------------------------------------------------------ C15

\* The reopen of p has fetched its snapshot and acted on it.
ReopenDecided(p) == hp[p].kind = "reopen" /\ hp[p].pc \in {"calling", "done"}

\* The reopen of p called backend.update(beanId, {status: targetStatus}).
UpdateIssued(p) ==
    /\ hp[p].method = "update"
    /\ hp[p].pc = "done" =>
          \E i \in 1..Len(hp[p].log) : hp[p].log[i].method = "update"

\* C15: reopen issues backend.update(id, {status: targetStatus}) if and only
\* if the id is in the snapshot it fetched with status requiredCurrentStatus:
\* on a mismatch, an absent id or a failed fetch it ends in an error and has
\* made no call but the list.
C15_ReopenOnlyFromRequiredStatus ==
    \A p \in Procs : ReopenDecided(p) =>
        /\ UpdateIssued(p) <=> hp[p].found = hp[p].required
        /\ hp[p].found # hp[p].required =>
              /\ hp[p].pc = "done" /\ hp[p].result = "error"
              /\ \A i \in 1..Len(hp[p].log) : hp[p].log[i].method = "list"

\* A reopen that required scrapped found its record scrapped and has updated
\* it to todo.
C15_Witness ==
    \E p \in Procs :
        /\ hp[p].kind = "reopen" /\ hp[p].pc = "done" /\ hp[p].result = "ok"
        /\ hp[p].required = "scrapped" /\ hp[p].found = "scrapped"
        /\ \E i \in 1..Len(hp[p].log) :
              /\ hp[p].log[i].method = "update"
              /\ store[hp[p].log[i].by][hp[p].beanId] = "todo"

\* ------------------------------------------------------------------ C16

\* The variables the child may inherit: the allow-list and the BEANS_ prefix.
AllowedName(k) ==
    \/ k \in {<<"PATH">>, <<"HOME">>, <<"USER">>, <<"LANG">>, <<"LC_ALL">>,
              <<"LC_CTYPE">>, <<"SHELL">>}
    \/ k # <<>> /\ k[1] = "BEANS_"

\* The allowed part of an environment.
AllowedPart(env) == [k \in {n \in DOMAIN env : AllowedName(n)} |-> env[k]]

\* C16: every invocation of the tool receives an environment whose
\* variables are all allowed names, each with the parent's value, and the
\* same environment would have been handed over under any parent
\* environment with the same allowed part.
C16_OnlyAllowedEnv ==
    \A i \in 1..Len(be.execs) :
        LET env == be.execs[i].env IN
        /\ \A k \in DOMAIN env : AllowedName(k) /\ k \in DOMAIN penv /\ env[k] = penv[k]
        /\ be.pc = "running" =>
              \A other \in ParentEnvs :
                  AllowedPart(other) = AllowedPart(penv) =>
                      FirstExec(be.op, be.id, be.o, other).env = env

\* The tool was invoked with PATH and BEANS_X from a parent environment that
\* also held SECRET and MY_BEANS_X.
C16_Witness ==
    /\ be.pc = "running"
    /\ DOMAIN penv = {<<"PATH">>, <<"BEANS_", "X">>, <<"SECRET">>, <<"MY_", "BEANS_", "X">>}
    /\ penv[<<"PATH">>] = "v"
    /\ DOMAIN be.execs[1].env = {<<"PATH">>, <<"BEANS_", "X">>}

\* ------------------------------------------------------------------ C17

\* The invocation failed: a non-zero exit, the timeout, too much output, or
\* output that the operation had to parse and could not.
InvocationFailed(op, outcome) ==
    \/ outcome \in {"exit", "timeout", "overflow"}
    \/ outcome = "garbage" /\ op \in {"list", "create", "update", "delete"}

\* C17: an operation invokes the tool once and no more, and a failed
\* invocation ends the operation in an error: never in a result.
C17_OneInvocationNoRetry ==
    /\ Len(be.execs) <= 1
    /\ be.pc \in {"running", "done"} => Len(be.execs) = 1
    /\ (be.pc = "done" /\ InvocationFailed(be.op, be.outcome)) =>
          /\ be.result.status = "error"
          /\ be.result.kind = "error"
          /\ be.result.beans = <<>>
    /\ \A i \in 1..Len(bh.calls) :
          InvocationFailed(bh.calls[i].op, bh.calls[i].outcome) =>
              bh.calls[i].status = "error"

\* A list whose invocation timed out has ended in an error after one
\* invocation.
C17_Witness ==
    /\ be.pc = "done" /\ be.op = "list" /\ be.outcome = "timeout"
    /\ Len(be.execs) = 1
    /\ be.result.status = "error"

\* ------------------------------------------------------------------ C18

\* C18 (as claimed): a failed editBeanFile or createBeanFile leaves the file
\* it was to write with its complete prior content.
C18_FailedWriteKeepsPriorContent ==
    (/\ fop.op \in {"edit", "create"}
     /\ fop.status = "error"
     /\ fop.target # <<>>
     /\ IsFileContent(Holds(fop.target, fop.before))) =>
        Holds(fop.target, Disk) = Holds(fop.target, fop.before)

\* ------------------------------------------------------------ C19, C20

\* The tie-break keys of a record under a mode.
SortKeys(b, mode) ==
    CASE mode = "status-priority-type-title" ->
            <<StatusWeight(b.status), PriorityWeight(b.priority), TypeWeight(b.type)>>
                \o b.title
      [] mode = "updated" -> <<b.updatedAt>>
      [] mode = "created" -> <<b.createdAt>>
      [] OTHER -> b.id

\* C19: the output of sortBeans is a permutation of its input, and two
\* records equal under every tie-break key of the mode keep the relative
\* order they had in the input.
C19_StablePermutation ==
    sq.phase \in {"sorted", "resorted"} =>
        LET n == Len(sq.xs) IN
        /\ Len(sq.once) = n /\ Len(sq.perm) = n
        /\ \A k \in 1..n : \E i \in 1..n : sq.perm[i] = k
        /\ \A i \in 1..n : sq.once[i] = sq.xs[sq.perm[i]]
        /\ \A i, j \in 1..n :
              (i < j /\ SortKeys(sq.once[i], sq.mode) = SortKeys(sq.once[j], sq.mode)) =>
                  sq.perm[i] < sq.perm[j]

\* Two records with the same status, priority (one by default), type and
\* title were sorted behind an in-progress record and kept their order.
C19_Witness ==
    /\ sq.phase = "sorted"
    /\ sq.mode = "status-priority-type-title"
    /\ Len(sq.xs) = 3
    /\ sq.xs[1].id = <<98>> /\ sq.xs[2].id = <<97>> /\ sq.xs[2].status = "todo"
    /\ sq.xs[3].status = "in-progress"
    /\ sq.perm = <<3, 1, 2>>

\* C20: in every mode, sorting a sorted list changes nothing.
C20_SortIdempotent ==
    sq.phase = "resorted" => sq.twice = sq.once

\* A list that sortBeans reordered by update time was sorted a second time.
C20_Witness ==
    /\ sq.phase = "resorted"
    /\ sq.mode = "updated"
    /\ Len(sq.xs) = 3
    /\ sq.once # sq.xs
    /\ sq.xs[1].updatedAt = 0 /\ sq.xs[2].updatedAt = 2 /\ sq.xs[3].updatedAt = 2
    /\ sq.xs[2] # sq.xs[3]
    /\ sq.twice = sq.once

\* ------------------------------------------------------------------ C21

KnownStatus(b) ==
    b.status \in {"in-progress", "todo", "draft", "completed", "scrapped"}
KnownPriority(b) ==
    b.priority \in {"critical", "high", "normal", "low", "undefined"}
KnownType(b) == b.type \in {"milestone", "epic", "feature", "bug", "task"}

SortedByStatusMode ==
    sq.phase \in {"sorted", "resorted"} /\ sq.mode = "status-priority-type-title"

\* C21 (as claimed): under status-priority-type-title no record with an
\* unrecognized status (respectively priority, type) comes before a record
\* whose status (respectively priority, type) is recognized.
C21_UnknownAfterAllKnown ==
    SortedByStatusMode =>
        \A i, j \in 1..Len(sq.once) : i < j =>
            /\ ~(~KnownStatus(sq.once[i]) /\ KnownStatus(sq.once[j]))
            /\ ~(~KnownPriority(sq.once[i]) /\ KnownPriority(sq.once[j]))
            /\ ~(~KnownType(sq.once[i]) /\ KnownType(sq.once[j]))

\* C21 (amended): a record with an unrecognized status comes after every
\* record with a recognized status; a record with an unrecognized priority
\* comes after every record of the same status weight with a recognized (or
\* missing, hence normal) priority; a record with an unrecognized type comes
\* after every record of the same status and priority weight with a
\* recognized type.
C21_UnknownLastWithinEarlierKeys ==
    SortedByStatusMode =>
        \A i, j \in 1..Len(sq.once) : i < j =>
            LET a == sq.once[i]
                b == sq.once[j]
                sameStatus == StatusWeight(a.status) = StatusWeight(b.status)
                samePriority == PriorityWeight(a.priority) = PriorityWeight(b.priority)
            IN  /\ ~(~KnownStatus(a) /\ KnownStatus(b))
                /\ sameStatus => ~(~KnownPriority(a) /\ KnownPriority(b))
                /\ (sameStatus /\ samePriority) => ~(~KnownType(a) /\ KnownType(b))

\* A record of unknown status given first was sorted behind two todo
\* records, the one of unknown type behind the task.
C21_Witness ==
    /\ SortedByStatusMode
    /\ Len(sq.xs) = 3
    /\ sq.xs[1].status = "blocked"
    /\ sq.xs[2].status = "todo" /\ sq.xs[2].type = "chore"
    /\ sq.xs[3].status = "todo" /\ sq.xs[3].type = "task"
    /\ sq.xs[3].priority = "undefined"
    /\ sq.perm = <<3, 2, 1>>

\* ------------------------------------------------------------------ C22

StampOf(b) == IF sq.mode = "updated" THEN b.updatedAt ELSE b.createdAt

\* C22: under updated (created) the output is in descending order of the
\* timestamp, records without one come after all records that have one, and
\* records with equal or both-missing timestamps keep their input order.
C22_NewestFirstMissingLast ==
    (sq.phase \in {"sorted", "resorted"} /\ sq.mode \in {"updated", "created"}) =>
        \A i, j \in 1..Len(sq.once) : i < j =>
            LET a == StampOf(sq.once[i])
                b == StampOf(sq.once[j])
            IN  /\ (a # 0 /\ b # 0) => a >= b
                /\ a = 0 => b = 0
                /\ a = b => sq.perm[i] < sq.perm[j]

\* A record without updatedAt given first was sorted behind a record updated
\* at 2 and, before that one, a record updated at 3.
C22_Witness ==
    /\ sq.phase = "sorted" /\ sq.mode = "updated"
    /\ Len(sq.xs) = 3
    /\ sq.xs[1].updatedAt = 0 /\ sq.xs[2].updatedAt = 2 /\ sq.xs[3].updatedAt = 3
    /\ sq.perm = <<3, 2, 1>>

\* ----------------------------------------------------------------- C23

\* The tags a record carries and the tags a filter lists, as sets.
CarriedTags(bean) == IF bean.tags.t = "array" THEN Elems(bean.tags.v) ELSE {}
ListedTags(tags) == IF tags.t = "array" THEN Elems(tags.v) ELSE {}

\* out holds exactly the fetched records at the positions in kept.
ReturnsExactly(out, fetched, kept) ==
    /\ Elems(out) = {fetched[i] : i \in kept}
    /\ Len(out) = Cardinality(kept)

\* C23: the filter query with a non-empty tags list returns exactly the
\* fetched records carrying at least one listed tag; a record with no tags
\* never matches; an absent, null or empty tags list excludes nothing.
C23_TagsFilterIsOr ==
    (qy.phase = "done" /\ qy.operation = "filter") =>
        LET listed == ListedTags(qy.tags)
            kept == {i \in 1..Len(qy.fetched) :
                        listed = {} \/ CarriedTags(qy.fetched[i]) \cap listed # {}}
        IN  /\ ReturnsExactly(qy.out, qy.fetched, kept)
            /\ listed = {} => qy.out = qy.fetched
            /\ listed # {} => \A i \in 1..Len(qy.out) : CarriedTags(qy.out[i]) # {}

\* A filter listing two tags kept a record carrying only one of them and
\* dropped a record without tags.
C23_Witness ==
    /\ qy.phase = "done" /\ qy.operation = "filter"
    /\ Cardinality(ListedTags(qy.tags)) = 2
    /\ \E i \in 1..Len(qy.out) :
           Cardinality(CarriedTags(qy.out[i]) \cap ListedTags(qy.tags)) = 1
    /\ \E i \in 1..Len(qy.fetched) :
           qy.fetched[i].tags.t = "undefined" /\ qy.fetched[i] \notin Elems(qy.out)

\* ----------------------------------------------------------------- C24

\* Two texts that differ at most in the case of their letters.
SameIgnoringCase(a, b) ==
    /\ Len(a) = Len(b)
    /\ \A i \in 1..Len(a) :
          \/ a[i] = b[i]
          \/ a[i] \in 65..90 /\ b[i] = a[i] + 32
          \/ b[i] \in 65..90 /\ a[i] = b[i] + 32

OccursIgnoringCase(text, part) ==
    \E k \in 0..Len(text) : k + Len(part) <= Len(text)
        /\ SameIgnoringCase(SubSeq(text, k + 1, k + Len(part)), part)

SearchText == IF qy.search.t = "string" THEN qy.search.v ELSE <<>>

\* C24: the search query returns exactly the fetched records whose title,
\* id or some tag contains the search text whatever the case (an empty or
\* absent text matching every record), less the completed and scrapped
\* records if and only if includeClosed is explicitly false.
C24_SearchIgnoresCaseAndClosedFlag ==
    (qy.phase = "done" /\ qy.operation = "search") =>
        LET kept == {i \in 1..Len(qy.fetched) :
                        /\ \/ OccursIgnoringCase(qy.fetched[i].title, SearchText)
                           \/ OccursIgnoringCase(qy.fetched[i].id, SearchText)
                           \/ \E t \in CarriedTags(qy.fetched[i]) :
                                 OccursIgnoringCase(t, SearchText)
                        /\ qy.includeClosed = JsBoolean(FALSE)
                              => qy.fetched[i].status \notin {"completed", "scrapped"}}
        IN  ReturnsExactly(qy.out, qy.fetched, kept)

\* A search in upper case found a record by a lower-case title letter, and
\* includeClosed false removed a closed record that matched the text.
C24_Witness ==
    /\ qy.phase = "done" /\ qy.operation = "search"
    /\ qy.search = JsString(<<66>>) /\ qy.includeClosed = JsBoolean(FALSE)
    /\ \E i \in 1..Len(qy.out) :
           Includes(qy.out[i].title, <<98>>) /\ ~Includes(qy.out[i].title, <<66>>)
    /\ \E i \in 1..Len(qy.fetched) :
           /\ qy.fetched[i].status = "scrapped" /\ qy.fetched[i].title = <<66>>
           /\ qy.fetched[i] \notin Elems(qy.out)

\* ----------------------------------------------------------------- C25

\* The shape violations of a request, stated field by field.
MissingOrEmpty(tool, f) ==
    InputSchema(tool)[f].required /\ InputSchema(tool)[f].kind = "string"
        /\ (rq.args[f].t = "undefined" \/ (rq.args[f].t = "string" /\ rq.args[f].n = 0))
TooLong(tool, f) ==
    InputSchema(tool)[f].kind \in {"string", "array"}
        /\ rq.args[f].t = (IF InputSchema(tool)[f].kind = "string" THEN "string" ELSE "array")
        /\ rq.args[f].n > InputSchema(tool)[f].max
UnknownEnumValue(tool, f) ==
    InputSchema(tool)[f].kind = "enum" /\ rq.args[f].t = "string"
        /\ rq.args[f].text \notin InputSchema(tool)[f].values
LinesOutOfRange(tool, f) ==
    InputSchema(tool)[f].kind = "number" /\ rq.args[f].t = "number"
        /\ (rq.args[f].n < 1 \/ rq.args[f].n > 5000)
ViolatesShape ==
    \E f \in DOMAIN InputSchema(rq.tool) :
        \/ MissingOrEmpty(rq.tool, f) \/ TooLong(rq.tool, f)
        \/ UnknownEnumValue(rq.tool, f) \/ LinesOutOfRange(rq.tool, f)
        \/ ~ConformsTypeOnly(InputSchema(rq.tool)[f], rq.args[f])

\* C25: a request whose input violates the declared shape of its operation
\* never reaches a Backend method: the handler does not run and the client
\* gets an error result with a non-empty message.
C25_InvalidInputNeverReachesBackend ==
    (rq.phase = "answered" /\ ViolatesShape) =>
        /\ ~rq.handlerRan /\ rq.calls = <<>>
        /\ rq.result.isError /\ rq.result.text \notin {"", "none"}

\* A beans_create request with a title one character too long was answered.
C25_Witness ==
    /\ rq.phase = "answered" /\ rq.tool = "beans_create"
    /\ rq.args.title = Sized(MAX_TITLE_LENGTH + 1) /\ rq.args.type = Sized(1)
    /\ rq.result.isError

\* ----------------------------------------------------------------- C26

\* The step in which the tool carries out the backend.delete of p.
DeleteCarriedOut(p) ==
    /\ hp[p].pc = "deleting" /\ hp'[p].pc = "done"
    /\ store[hp[p].bound][hp[p].beanId] # "absent"
    /\ store'[hp[p].bound][hp[p].beanId] = "absent"

\* C26 (as claimed): under any interleaving of operations on one backend, a
\* delete with force=false whose backend.delete was issued removes a record
\* only in status draft or scrapped: an update that lands between the
\* handler's list snapshot and its delete cannot lead to the deletion of a
\* record in another status.
C26_UnforcedDeleteOnlyDraftOrScrapped ==
    [][\A p \in Procs :
          (DeleteCarriedOut(p) /\ ~hp[p].force /\ hp[p].log[1].by = hp[p].bound)
              => store[hp[p].bound][hp[p].beanId] \in {"draft", "scrapped"}]_vars

\* ----------------------------------------------------------------- C27

\* The handler of p has made its second call (the delete or the update that
\* follows the list).
SecondCallMade(p) ==
    /\ hp[p].kind \in {"delete", "reopen"}
    /\ hp[p].log # <<>>
    /\ hp[p].pc \in {"deleting", "calling"} \/ Len(hp[p].log) = 2

\* C27 (as claimed): within one delete or reopen over the delegate, the
\* list() that produced the snapshot and the delete()/update() that follows
\* are served by the same inner backend, also when setInner runs between.
C27_SnapshotAndActionSameBackend ==
    \A p \in Procs : SecondCallMade(p) => hp[p].bound = hp[p].log[1].by

\* ----------------------------------------------------------------- C28

\* C28 (as claimed): when no explicit workspace is supplied and the client
\* declares a local root, every tool call served after the transport is
\* connected runs against the backend rooted at the discovered root; none
\* is served by the backend rooted at the current directory.
C28_NoCallServedByCwdBackend ==
    (su.pc = "done" /\ ~su.parsed.workspaceExplicit /\ ~su.resolved.isNull) =>
        \A i \in 1..Len(su.served) :
            su.served[i].workspaceRoot = su.resolved.path

\* ----------------------------------------------------------------- C29

\* The backend built at startup from the parsed command line.
StartupBackend ==
    BeansCliBackend(su.parsed.workspaceRoot, su.parsed.cliPath, su.parsed.logDir)

\* readOutputLog of the backend lets the log path through on account of the
\* backend's log directory (BEANS_VSCODE_LOG_DIR unset).
AcceptsInLogDir(backend, logPath) ==
    /\ backend.logDir # <<>>
    /\ IsPathWithinRoot(Resolve(backend.logDir), Resolve(logPath))

\* C29 (as claimed): the roots-driven swap changes only the workspace root
\* of the active backend: the CLI path and the log directory configured at
\* startup are the same after setInner, so readOutputLog accepts the same
\* log directory after the swap as before it.
C29_SwapKeepsCliPathAndLogDir ==
    (su.pc = "done" /\ su.swaps > 0) =>
        /\ su.inner.cliPath = StartupBackend.cliPath
        /\ su.inner.logDir = StartupBackend.logDir
        /\ \A dir \in {<<"/", "x">>, <<"/", "y">>, Cwd} :
              LET logPath == dir \o <<"/", "o", ".", "log">> IN
              AcceptsInLogDir(StartupBackend, logPath) <=> AcceptsInLogDir(su.inner, logPath)

\* ----------------------------------------------------------------- C30

\* The supplied field of the updates object is in the mutation input under
\* the given name, with the supplied value.
CarriedAs(field, name) ==
    be.o[field] # Undefined => (name \in DOMAIN SentInput /\ SentInput[name] = be.o[field])

\* The fields of beans_update other than body reach the mutation input
\* (clearParent as an empty parent, unless a parent is supplied).
MetadataCarried ==
    /\ CarriedAs("status", "status") /\ CarriedAs("type", "type")
    /\ CarriedAs("priority", "priority") /\ CarriedAs("parent", "parent")
    /\ be.o["clearParent"] = JsBoolean(TRUE) => "parent" \in DOMAIN SentInput
    /\ CarriedAs("blocking", "addBlocking") /\ CarriedAs("blockedBy", "addBlockedBy")

\* C30 (as claimed): every field beans_update accepts and the caller
\* supplies is carried into the update mutation input sent to the tool; in
\* particular a supplied body reaches the tool.
C30_SuppliedFieldsReachMutation ==
    (be.op = "update" /\ be.pc \in {"running", "done"}) =>
        MetadataCarried /\ CarriedAs("body", "body")

====
